---- MODULE Spec2Model ----
(***************************************************************************)
(* Model of the simulation core of dusk-boingboing (the Rune logic module  *)
(* at src/src/BoingBoing.ts lines 1560-2061; src/src/logic.ts is an        *)
(* earlier revision of the same module, identical except for the spike     *)
(* spacing rule of the generator and the START_NEW_GAME event).            *)
(*                                                                         *)
(* Numbers.  Screen coordinates and velocities are fractions of the screen *)
(* in the source; here they are integers counted in units of 1/One of the  *)
(* screen (One = 600000), the coarsest grid on which every constant of the *)
(* source (0.05, 1/6, 0.03, -0.0015, 0.02, a tenth of a velocity, ...) is  *)
(* an integer.  Arithmetic is exact: floating point rounding is not        *)
(* modelled.  Clock values are integers in milliseconds.  A value of       *)
(* Math.random() is an integer r standing for r / RandScale.               *)
(***************************************************************************)
EXTENDS Integers, Sequences, FiniteSets, TLC

(***************************************************************************)
(* Bounds of the model                                                     *)
(***************************************************************************)
\* rows generated by startGame (the source generates 1000)
NumRows == 12
\* enemies generated by startGame (the source generates 10)
NumEnemies == 1
\* the clock is not advanced beyond this value (milliseconds)
MaxTime == 131000
\* join is not applied once the jumpers list has this many entries
MaxJumpers == 2
\* once a round is running, join, controls, connects and disconnects arrive
\* only up to this time (milliseconds) after its startAt, or after its end
MaxLateInput == 4000
\* actions and connection events (join, controls, connect, disconnect)
\* arriving in one session
MaxInputs == 3
\* an update finds the lobby still waiting for a join only up to this time
MaxIdleTime == 4000
\* rows of the generator loop explored with unrestricted draws in SpecGen
GenFreeRows == 5
\* rows generated by startGame for the levels played in SpecPlay
PlayRows == 37
\* the amount (milliseconds) by which the clock advances between two updates
\* in SpecPlay
PlayStep == 500
\* the clock is not advanced beyond this value in SpecPlay
PlayMaxTime == 128000

\* SpecMove: milliseconds between two updates
MoveStep == 2000
\* SpecMove: the clock value after which no update is made
MoveMaxTime == 34000
\* SpecOver: the host clock stops at OverMaxTime ms
OverMaxTime == 150000
\* SpecLive: no update is made in the lobby after LiveMaxTime ms
LiveMaxTime == 6000

\* the player ids that may connect (the source allows up to maxPlayers = 4)
PlayerIds == <<"p1", "p2">>
\* character types offered to join
JumperTypes == {0}
\* the amounts by which the host clock advances between two updates
ClockSteps == {2000, 120000}
\* values of Math.random() explored by SpecGen (r stands for r / RandScale)
RandomDraws == {0, 999}
\* the Math.random() streams a call of startGame may see; stream s yields
\* RandomStreams[s][1], RandomStreams[s][2], ... and then repeats.
\* Stream 1 places a plain platform over the middle of every row.  Stream 2
\* draws, in call order: the theme; row 5 (forced): x, spring roll; row 6:
\* placement roll, x, spring roll (a spring); then for each further group
\* of five rows four failed placement rolls and a forced platform; at last
\* the first enemy's height, x, speed and direction and the next gap.
EmptyRows == <<999, 999, 999, 999, 500, 999>>
\* Streams 3 to 5 are the levels played in SpecPlay.  Each has spring
\* platforms over the middle of rows 5 and 18, plain forced platforms at rows
\* 10, 15, 23 and 28, and a platform over the middle of row 31: with spikes
\* (SpikeLevel), a faller (FallerLevel) or plain (EnemyLevel).  The first
\* enemy flies near the top (y = 2.998), in EnemyLevel at y = 1.0.
SpikeLevel ==
  <<0, 500, 0, 999, 999, 999, 999, 500, 999, 999, 999, 999, 999, 500, 999, 999,
    999, 0, 600, 0, 999, 999, 999, 999, 500, 999, 999, 999, 999, 999, 500, 999,
    999, 999, 0, 600, 0, 999, 500, 999, 999, 999, 999, 999, 500, 0, 0, 0>>
FallerLevel ==
  <<0, 500, 0, 999, 999, 999, 999, 500, 999, 999, 999, 999, 999, 500, 999, 999,
    999, 0, 600, 0, 999, 999, 999, 999, 500, 999, 999, 999, 999, 999, 500, 999,
    999, 999, 0, 600, 999, 0, 999, 500, 999, 999, 999, 999, 999, 500, 0, 0,
    0>>
EnemyLevel ==
  <<0, 500, 0, 999, 999, 999, 999, 500, 999, 999, 999, 999, 999, 500, 999, 999,
    999, 0, 600, 0, 999, 999, 999, 999, 500, 999, 999, 999, 999, 999, 500, 999,
    999, 999, 0, 600, 999, 999, 999, 999, 999, 999, 999, 500, 999, 0, 0, 600,
    0, 0>>
\* Stream 7 is the level played in SpecOver: a spring platform at row 5
\* under x = 0.6 only, a plain platform at row 6 under x = 0.4 only, a plain
\* platform at row 8 under x = 0.6 only and no platform at rows 7, 9, 10
\* and 11.
OvertakeLevel ==
  <<0, 500, 0, 0, 400, 999, 999, 0, 600, 999, 999, 999, 999, 999, 0, 0, 0, 0>>
\* Stream 8 is the other level played in SpecOver: spring platforms at rows
\* 5 and 18 and a faller at row 31, each under x = 0.4 and x = 0.6 alike,
\* and forced platforms at rows 10, 15, 23, 28 and 33 at the right, under
\* neither.
SharedFallerLevel ==
  <<0, 250, 0, 999, 999, 999, 999, 999, 999, 999, 999, 999, 999, 999, 999,
    999, 999, 0, 500, 0, 999, 999, 999, 999, 999, 999, 999, 999, 999, 999,
    999, 999, 999, 999, 0, 500, 999, 0, 999, 999, 999, 999, 999, 999, 999,
    0, 0, 0, 0>>
RandomStreams ==
  << <<600>>,
     <<0, 500, 999, 0, 600, 0>>
       \o EmptyRows
       \o <<0, 0, 600, 0, 0>>,
     SpikeLevel, FallerLevel, EnemyLevel,
     <<600, 600>>,
     OvertakeLevel, SharedFallerLevel >>
\* Stream 6 holds the same sequence of values as stream 1.
\* the streams of the sessions of Spec and of the levels of SpecPlay
SessionStreams == {1, 2}
PlayStreams == {3, 4, 5}
\* the streams of the levels of SpecOver
OverStreams == {7, 8}
\* the stream of the sessions of SpecLive
LiveStreams == {2}
\* the rows startGame generates on stream s
LevelRows(s) == IF s \in PlayStreams \cup {8} THEN PlayRows ELSE NumRows

(***************************************************************************)
(* Program constants                                                       *)
(***************************************************************************)
One == 600000
RandScale == 1000
rowHeight == (5 * One) \div 100
platformWidth == One \div 6
defaultJumpPower == (3 * One) \div 100
gravity == 0 - ((15 * One) \div 10000)
playerHalfWidth == (3 * One) \div 100
moveSpeed == (2 * One) \div 100
roundTime == 1000 * 60 * 2
steps == 10
minPlayers == 1
maxPlayers == 4
\* the "unset" value of startAt and gameRestartTime
Unset == 0 - 1
\* playerId of an event that carries none
NoPlayer == "none"

DIE == "die"
WIN == "win"
BOUNCE == "bounce"
SPRING == "spring"
START_NEW_GAME == "game"

Players == {PlayerIds[k] : k \in DOMAIN PlayerIds}

\* a faulty Math.max that forgets the recorded value
Latest(a, b) == b
\* Math.max
Max(a, b) == IF a >= b THEN a ELSE b
Min(a, b) == IF a <= b THEN a ELSE b
Abs(a) == IF a >= 0 THEN a ELSE 0 - a

\* Array.prototype.indexOf on the connected-player list: 0-based, -1 if absent
RECURSIVE IndexFrom(_, _, _)
IndexFrom(s, e, k) ==
  IF k > Len(s) THEN 0 - 1
  ELSE IF s[k] = e THEN k - 1
  ELSE IndexFrom(s, e, k + 1)
indexOf(s, e) == IndexFrom(s, e, 1)

\* jumpers.filter(j => j.id !== playerId)
RECURSIVE filterOut(_, _)
filterOut(js, playerId) ==
  IF js = <<>> THEN <<>>
  ELSE IF Head(js).id # playerId THEN <<Head(js)>> \o filterOut(Tail(js), playerId)
  ELSE filterOut(Tail(js), playerId)

\* jumpers.find(j => !j.dead), as the 1-based position of the first match
\* (0 stands for undefined: no match)
RECURSIVE FindAliveFrom(_, _)
FindAliveFrom(js, k) ==
  IF k > Len(js) THEN 0
  ELSE IF ~js[k].dead THEN k
  ELSE FindAliveFrom(js, k + 1)
findAlive(js) == FindAliveFrom(js, 1)

\* jumpers.find(j => j.id === playerId), same convention
RECURSIVE FindIdFrom(_, _, _)
FindIdFrom(js, playerId, k) ==
  IF k > Len(js) THEN 0
  ELSE IF js[k].id = playerId THEN k
  ELSE FindIdFrom(js, playerId, k + 1)
findId(js, playerId) == FindIdFrom(js, playerId, 1)

(***************************************************************************)
(* Math.random()                                                           *)
(***************************************************************************)
\* a faulty source of random values whose values depend on which stream it is
DrawSalted(s, k) ==
  (RandomStreams[s][((k - 1) % Len(RandomStreams[s])) + 1] + s) % RandScale
\* the k-th value (k = 1, 2, ...) of stream s
Draw(s, k) == RandomStreams[s][((k - 1) % Len(RandomStreams[s])) + 1]
\* the next n values of stream s after pos values were consumed
NextDraws(s, pos, n) == [k \in 1 .. n |-> Draw(s, pos + k)]
\* Math.random() < num / den, for the value r
Below(r, num, den) == r * den < RandScale * num

\* a faulty generatePlatform that rolls for spikes and fallers on required
\* platforms too
generatePlatformHazards(i, requiredPlatform, lastSpike, d) ==
  LET x == IF requiredPlatform
           THEN (One \div 2) + ((d[1] * platformWidth * 2) \div RandScale) - platformWidth
           ELSE (d[1] * (One - platformWidth)) \div RandScale
      rollSpikes == (i - lastSpike) > 4 /\ i > 30
      spikes == rollSpikes /\ Below(d[2], 300 + i, 3000)
      n2 == IF rollSpikes THEN 2 ELSE 1
      rollFaller == i > 30 /\ ~spikes
      faller == rollFaller /\ Below(d[n2 + 1], 300 + i, 3000)
      n3 == IF rollFaller THEN n2 + 1 ELSE n2
      rollSpring == ~faller /\ ~spikes
      spring == rollSpring /\ Below(d[n3 + 1], 400 + i, 5000)
      n4 == IF rollSpring THEN n3 + 1 ELSE n3
  IN [platform |-> [x |-> x, y |-> i * rowHeight, width |-> platformWidth,
                    spikes |-> spikes, faller |-> faller, falling |-> FALSE,
                    vy |-> 0, spring |-> spring],
      used |-> n4]

\* a faulty generatePlatform that does not look at the last spiked row
generatePlatformDenseSpikes(i, requiredPlatform, lastSpike, d) ==
  LET x == IF requiredPlatform
           THEN (One \div 2) + ((d[1] * platformWidth * 2) \div RandScale) - platformWidth
           ELSE (d[1] * (One - platformWidth)) \div RandScale
      rollSpikes == i > 30 /\ ~requiredPlatform
      spikes == rollSpikes /\ Below(d[2], 300 + i, 3000)
      n2 == IF rollSpikes THEN 2 ELSE 1
      rollFaller == i > 30 /\ ~requiredPlatform /\ ~spikes
      faller == rollFaller /\ Below(d[n2 + 1], 300 + i, 3000)
      n3 == IF rollFaller THEN n2 + 1 ELSE n2
      rollSpring == ~faller /\ ~spikes
      spring == rollSpring /\ Below(d[n3 + 1], 400 + i, 5000)
      n4 == IF rollSpring THEN n3 + 1 ELSE n3
  IN [platform |-> [x |-> x, y |-> i * rowHeight, width |-> platformWidth,
                    spikes |-> spikes, faller |-> faller, falling |-> FALSE,
                    vy |-> 0, spring |-> spring],
      used |-> n4]

\* a faulty generatePlatform that rolls for a spring on fallers too
generatePlatformSpringyFaller(i, requiredPlatform, lastSpike, d) ==
  LET x == IF requiredPlatform
           THEN (One \div 2) + ((d[1] * platformWidth * 2) \div RandScale) - platformWidth
           ELSE (d[1] * (One - platformWidth)) \div RandScale
      rollSpikes == (i - lastSpike) > 4 /\ i > 30 /\ ~requiredPlatform
      spikes == rollSpikes /\ Below(d[2], 300 + i, 3000)
      n2 == IF rollSpikes THEN 2 ELSE 1
      rollFaller == i > 30 /\ ~requiredPlatform /\ ~spikes
      faller == rollFaller /\ Below(d[n2 + 1], 300 + i, 3000)
      n3 == IF rollFaller THEN n2 + 1 ELSE n2
      rollSpring == ~spikes
      spring == rollSpring /\ Below(d[n3 + 1], 400 + i, 5000)
      n4 == IF rollSpring THEN n3 + 1 ELSE n3
  IN [platform |-> [x |-> x, y |-> i * rowHeight, width |-> platformWidth,
                    spikes |-> spikes, faller |-> faller, falling |-> FALSE,
                    vy |-> 0, spring |-> spring],
      used |-> n4]

\* a faulty generatePlatform that puts the platform at the top of its row
generatePlatformRowAbove(i, requiredPlatform, lastSpike, d) ==
  LET x == IF requiredPlatform
           THEN (One \div 2) + ((d[1] * platformWidth * 2) \div RandScale) - platformWidth
           ELSE (d[1] * (One - platformWidth)) \div RandScale
      rollSpikes == (i - lastSpike) > 4 /\ i > 30 /\ ~requiredPlatform
      spikes == rollSpikes /\ Below(d[2], 300 + i, 3000)
      n2 == IF rollSpikes THEN 2 ELSE 1
      rollFaller == i > 30 /\ ~requiredPlatform /\ ~spikes
      faller == rollFaller /\ Below(d[n2 + 1], 300 + i, 3000)
      n3 == IF rollFaller THEN n2 + 1 ELSE n2
      rollSpring == ~faller /\ ~spikes
      spring == rollSpring /\ Below(d[n3 + 1], 400 + i, 5000)
      n4 == IF rollSpring THEN n3 + 1 ELSE n3
  IN [platform |-> [x |-> x, y |-> (i + 1) * rowHeight, width |-> platformWidth,
                    spikes |-> spikes, faller |-> faller, falling |-> FALSE,
                    vy |-> 0, spring |-> spring],
      used |-> n4]

(***************************************************************************)
(* Level generator                                                         *)
(***************************************************************************)
\* generatePlatform(state, i, requiredPlatform, lastSpike): the platform put
\* at row i and the number of Math.random() values consumed.  d holds the
\* values Math.random() would return, in call order; a roll behind a false
\* && operand is not evaluated and consumes nothing.
generatePlatform(i, requiredPlatform, lastSpike, d) ==
  LET x == IF requiredPlatform
           THEN (One \div 2) + ((d[1] * platformWidth * 2) \div RandScale) - platformWidth
           ELSE (d[1] * (One - platformWidth)) \div RandScale
      rollSpikes == (i - lastSpike) > 4 /\ i > 30 /\ ~requiredPlatform
      spikes == rollSpikes /\ Below(d[2], 300 + i, 3000)
      n2 == IF rollSpikes THEN 2 ELSE 1
      rollFaller == i > 30 /\ ~requiredPlatform /\ ~spikes
      faller == rollFaller /\ Below(d[n2 + 1], 300 + i, 3000)
      n3 == IF rollFaller THEN n2 + 1 ELSE n2
      rollSpring == ~faller /\ ~spikes
      spring == rollSpring /\ Below(d[n3 + 1], 400 + i, 5000)
      n4 == IF rollSpring THEN n3 + 1 ELSE n3
  IN [platform |-> [x |-> x, y |-> i * rowHeight, width |-> platformWidth,
                    spikes |-> spikes, faller |-> faller, falling |-> FALSE,
                    vy |-> 0, spring |-> spring],
      used |-> n4]

\* a faulty start platform: twice the standard width, over the middle
startPlatformNarrow ==
  [x |-> (One \div 2) - platformWidth, y |-> rowHeight, width |-> 2 * platformWidth,
   spikes |-> FALSE, faller |-> FALSE, falling |-> FALSE, vy |-> 0, spring |-> FALSE]

\* the start platform, platforms[0]
startPlatform ==
  [x |-> 0 - platformWidth, y |-> rowHeight, width |-> 2 * One, spikes |-> FALSE,
   faller |-> FALSE, falling |-> FALSE, vy |-> 0, spring |-> FALSE]

\* a faulty guard that lets one more row pass before forcing a platform
forcedPlatformLate(g, i) == i - g.lastValidRow >= 6
\* "i - lastValidRow >= 5": the generator must place a platform at row i
forcedPlatform(g, i) == i - g.lastValidRow >= 5

\* One iteration of the generator loop at row i.  g holds the loop's state:
\* the platforms array (a function whose domain is the set of filled
\* indices), lastValidRow and lastSpike.  d holds the next five values of
\* Math.random(); used says how many were consumed.
generateRow(g, i, d) ==
  IF forcedPlatform(g, i)
  THEN LET r == generatePlatform(i, TRUE, g.lastSpike, d)
       IN [platforms |-> (i :> r.platform) @@ g.platforms,
           lastValidRow |-> i, lastSpike |-> g.lastSpike, used |-> r.used]
  ELSE IF Below(d[1], 500 - Min(400, i), 500)
  THEN LET r == generatePlatform(i, FALSE, g.lastSpike, Tail(d))
           platform == r.platform
       IN [platforms |-> (i :> platform) @@ g.platforms,
           lastValidRow |-> IF ~platform.spikes /\ ~platform.faller
                            THEN i ELSE g.lastValidRow,
           lastSpike |-> IF platform.spikes THEN i ELSE g.lastSpike,
           used |-> 1 + r.used]
  ELSE [platforms |-> g.platforms, lastValidRow |-> g.lastValidRow,
        lastSpike |-> g.lastSpike, used |-> 1]

\* the generator loop from row i to row LevelRows(s) - 1 on stream s
RECURSIVE generateRows(_, _, _, _)
generateRows(g, i, s, pos) ==
  IF i >= LevelRows(s) THEN [platforms |-> g.platforms, pos |-> pos]
  ELSE LET r == generateRow(g, i, NextDraws(s, pos, 5))
       IN generateRows(r, i + 1, s, pos + r.used)

\* the enemy loop: n enemies still to place
RECURSIVE generateEnemies(_, _, _, _, _)
generateEnemies(enemies, nextEnemyY, n, s, pos) ==
  IF n = 0 THEN enemies
  ELSE LET d == NextDraws(s, pos, 4)
           enemy == [x |-> ((d[1] * One) \div (2 * RandScale)) + (One \div 4),
                     y |-> nextEnemyY,
                     type |-> "bird",
                     speed |-> ((2 * One) \div 1000) + ((d[2] * ((5 * One) \div 1000)) \div RandScale),
                     dir |-> IF 2 * d[3] > RandScale THEN "left" ELSE "right"]
       IN generateEnemies(Append(enemies, enemy),
                          nextEnemyY + One + ((d[4] * 3 * One) \div RandScale),
                          n - 1, s, pos + 4)

\* a faulty startGame that keeps the jumpers of the round before
startGameKeepsJumpers(state, s) ==
  LET theme == (Draw(s, 1) * 5) \div RandScale
      g0 == [platforms |-> (0 :> startPlatform), lastValidRow |-> 0, lastSpike |-> 0]
      rows == generateRows(g0, 5, s, 1)
      nextEnemyY == One + ((Draw(s, rows.pos + 1) * 2 * One) \div RandScale)
      enemies == generateEnemies(<<>>, nextEnemyY, NumEnemies, s, rows.pos + 1)
  IN [state EXCEPT !.platforms = rows.platforms,
                   !.enemies = enemies, !.theme = theme, !.startAt = Unset,
                   !.jumping = FALSE, !.gameRestartTime = Unset]

\* startGame(state), with Math.random() yielding stream s
startGame(state, s) ==
  LET theme == (Draw(s, 1) * 5) \div RandScale
      g0 == [platforms |-> (0 :> startPlatform), lastValidRow |-> 0, lastSpike |-> 0]
      rows == generateRows(g0, 5, s, 1)
      nextEnemyY == One + ((Draw(s, rows.pos + 1) * 2 * One) \div RandScale)
      enemies == generateEnemies(<<>>, nextEnemyY, NumEnemies, s, rows.pos + 1)
  IN [state EXCEPT !.jumpers = <<>>, !.platforms = rows.platforms,
                   !.enemies = enemies, !.theme = theme, !.startAt = Unset,
                   !.jumping = FALSE, !.gameRestartTime = Unset]

\* setup(): the initial state
setup(s) ==
  startGame([jumpers |-> <<>>, platforms |-> <<>>, enemies |-> <<>>,
             startAt |-> Unset, jumping |-> FALSE, gameRestartTime |-> Unset,
             theme |-> 0, events |-> <<>>, scores |-> <<>>, best |-> <<>>], s)

(***************************************************************************)
(* Round state machine and physics step                                    *)
(***************************************************************************)
Event(type, playerId) == [type |-> type, playerId |-> playerId]

\* a faulty gameOver that ends the round when the round time is reached
gameOverAtLimit(state, now) ==
  IF state.startAt = Unset THEN FALSE
  ELSE findAlive(state.jumpers) = 0 \/ now - state.startAt >= roundTime

\* a faulty gameOver that does not look at the clock
gameOverWhenAllDead(state, now) ==
  IF state.startAt = Unset THEN FALSE
  ELSE findAlive(state.jumpers) = 0

\* gameOver(state), with Rune.gameTime() = now
gameOver(state, now) ==
  IF state.startAt = Unset THEN FALSE
  ELSE findAlive(state.jumpers) = 0 \/ now - state.startAt > roundTime

\* a faulty, unstable sort step: j goes in front of the elements it ties with
RECURSIVE sortInsertTiesFirst(_, _)
sortInsertTiesFirst(sorted, j) ==
  IF sorted = <<>> THEN <<j>>
  ELSE IF j.highest - Head(sorted).highest >= 0
       THEN <<j>> \o sorted
       ELSE <<Head(sorted)>> \o sortInsertTiesFirst(Tail(sorted), j)
\* [...jumpers].sort((a, b) => b.highest - a.highest): Array.prototype.sort
\* is stable, so j goes behind every element that does not rank after it
RECURSIVE sortInsert(_, _)
sortInsert(sorted, j) ==
  IF sorted = <<>> THEN <<j>>
  ELSE IF j.highest - Head(sorted).highest > 0
       THEN <<j>> \o sorted
       ELSE <<Head(sorted)>> \o sortInsert(Tail(sorted), j)
RECURSIVE sortByHighest(_)
sortByHighest(js) ==
  IF js = <<>> THEN <<>>
  ELSE sortInsert(sortByHighest(SubSeq(js, 1, Len(js) - 1)), js[Len(js)])

\* game.scores[winner.id]++, after initialising a missing entry to 0
creditWinner(scores, id) ==
  IF id \in DOMAIN scores THEN [scores EXCEPT ![id] = @ + 1]
  ELSE (id :> 1) @@ scores

\* a faulty loop over game.platforms that moves a falling platform before it
\* accelerates it
fallPlatformsLate(platforms) ==
  [i \in DOMAIN platforms |->
     IF platforms[i].falling
     THEN [platforms[i] EXCEPT !.vy = @ + gravity,
                               !.y = @ + platforms[i].vy]
     ELSE platforms[i]]

\* the loop over game.platforms: falling platforms accelerate and move
fallPlatforms(platforms) ==
  [i \in DOMAIN platforms |->
     IF platforms[i].falling
     THEN [platforms[i] EXCEPT !.vy = @ + gravity,
                               !.y = @ + (platforms[i].vy + gravity)]
     ELSE platforms[i]]

\* the body of the loop over game.enemies
moveEnemy(enemy) ==
  IF enemy.dir = "left"
  THEN LET x == enemy.x - enemy.speed
       IN [enemy EXCEPT !.x = x, !.dir = IF x < 0 THEN "right" ELSE @]
  ELSE LET x == enemy.x + enemy.speed
       IN [enemy EXCEPT !.x = x, !.dir = IF x > One THEN "left" ELSE @]

\* a faulty landing test that finds no platform to land on
landingRowNone(game, k, now) == 0 - 1

\* a faulty platform search that lets dead jumpers land
landingRowForDead(game, k, now) ==
  LET jumper == game.jumpers[k]
      index == jumper.y \div rowHeight
  IN IF gameOver(game, now) THEN 0 - 1
     ELSE IF jumper.vy < 0 /\ index \in DOMAIN game.platforms
             /\ ~game.platforms[index].falling
             /\ jumper.x > game.platforms[index].x - playerHalfWidth
             /\ jumper.x < game.platforms[index].x + game.platforms[index].width
                           + playerHalfWidth
     THEN index
     ELSE 0 - 1

\* a faulty landing test that wants the jumper to fall faster than one
\* update of gravity
landingRowSteep(game, k, now) ==
  LET jumper == game.jumpers[k]
      index == jumper.y \div rowHeight
  IN IF jumper.dead THEN 0 - 1
     ELSE IF gameOver(game, now) THEN 0 - 1
     ELSE IF jumper.vy < gravity /\ index \in DOMAIN game.platforms
             /\ ~game.platforms[index].falling
             /\ jumper.x > game.platforms[index].x - playerHalfWidth
             /\ jumper.x < game.platforms[index].x + game.platforms[index].width
                           + playerHalfWidth
     THEN index
     ELSE 0 - 1

\* a faulty landing test that lets a jumper stand on a falling platform
landingRowOnFalling(game, k, now) ==
  LET jumper == game.jumpers[k]
      index == jumper.y \div rowHeight
  IN IF jumper.dead THEN 0 - 1
     ELSE IF gameOver(game, now) THEN 0 - 1
     ELSE IF jumper.vy < 0 /\ index \in DOMAIN game.platforms
             /\ jumper.x > game.platforms[index].x - playerHalfWidth
             /\ jumper.x < game.platforms[index].x + game.platforms[index].width
                           + playerHalfWidth
     THEN index
     ELSE 0 - 1

\* the platform the jumper at game.jumpers[k] lands on in the current
\* sub-step, as its row index, or -1 when it lands on none
landingRow(game, k, now) ==
  LET jumper == game.jumpers[k]
      index == jumper.y \div rowHeight
  IN IF jumper.dead THEN 0 - 1
     ELSE IF gameOver(game, now) THEN 0 - 1
     ELSE IF jumper.vy < 0 /\ index \in DOMAIN game.platforms
             /\ ~game.platforms[index].falling
             /\ jumper.x > game.platforms[index].x - playerHalfWidth
             /\ jumper.x < game.platforms[index].x + game.platforms[index].width
                           + playerHalfWidth
     THEN index
     ELSE 0 - 1

\* a faulty landing that reports the bounce of a jumper killed by spikes
landBouncesOnSpikes(game, k, index) ==
  LET jumper == game.jumpers[k]
      platform == game.platforms[index]
      events1 == IF platform.spikes
                 THEN Append(game.events, Event(DIE, jumper.id))
                 ELSE game.events
      events2 == Append(events1, Event(IF platform.spring THEN SPRING ELSE BOUNCE,
                                       jumper.id))
  IN [game EXCEPT
        !.jumpers[k] = [jumper EXCEPT
                          !.dead = IF platform.spikes THEN TRUE ELSE @,
                          !.y = platform.y,
                          !.vy = IF platform.spring THEN (defaultJumpPower * 3) \div 2
                                 ELSE defaultJumpPower],
        !.platforms[index] = [platform EXCEPT
                                !.falling = IF platform.faller THEN TRUE ELSE @],
        !.events = events2]

\* "landed on the platform": the jumper at game.jumpers[k] lands on row index
land(game, k, index) ==
  LET jumper == game.jumpers[k]
      platform == game.platforms[index]
      events1 == IF platform.spikes
                 THEN Append(game.events, Event(DIE, jumper.id))
                 ELSE game.events
      events2 == IF ~platform.spikes
                 THEN Append(events1, Event(IF platform.spring THEN SPRING ELSE BOUNCE,
                                            jumper.id))
                 ELSE events1
  IN [game EXCEPT
        !.jumpers[k] = [jumper EXCEPT
                          !.dead = IF platform.spikes THEN TRUE ELSE @,
                          !.y = platform.y,
                          !.vy = IF platform.spring THEN (defaultJumpPower * 3) \div 2
                                 ELSE defaultJumpPower],
        !.platforms[index] = [platform EXCEPT
                                !.falling = IF platform.faller THEN TRUE ELSE @],
        !.events = events2]

\* the sub-step loop for the jumper at game.jumpers[k], from sub-step i on
RECURSIVE subSteps(_, _, _, _)
subSteps(game, k, i, now) ==
  IF i >= steps THEN game
  ELSE LET moved == [game EXCEPT !.jumpers[k].y = @ + (game.jumpers[k].vy \div steps)]
           index == landingRow(moved, k, now)
       IN IF index >= 0 THEN land(moved, k, index)
          ELSE subSteps(moved, k, i + 1, now)

\* a faulty afterSteps that stops the jumper at the right margin
afterStepsCapped(game, k) ==
  LET jumper == game.jumpers[k]
      hit == \E e \in DOMAIN game.enemies :
                /\ Abs(game.enemies[e].x - jumper.x) < (5 * One) \div 100
                /\ Abs(game.enemies[e].y - jumper.y) < (5 * One) \div 100
      x1 == IF jumper.right /\ jumper.x < One - playerHalfWidth
            THEN Min(jumper.x + moveSpeed, One - playerHalfWidth) ELSE jumper.x
      x2 == IF jumper.left /\ x1 > playerHalfWidth THEN x1 - moveSpeed ELSE x1
      highest == Max(jumper.highest, jumper.y)
      best == IF jumper.id \notin DOMAIN game.best
              THEN (jumper.id :> highest) @@ game.best
              ELSE IF game.best[jumper.id] = 0 \/ highest > game.best[jumper.id]
              THEN [game.best EXCEPT ![jumper.id] = highest]
              ELSE game.best
      fell == jumper.y < highest - (One \div 2) /\ ~hit
      events1 == IF hit THEN Append(game.events, Event(DIE, jumper.id))
                 ELSE game.events
      events2 == IF fell THEN Append(events1, Event(DIE, jumper.id)) ELSE events1
  IN IF jumper.dead THEN game
     ELSE [game EXCEPT
             !.jumpers[k] = [jumper EXCEPT !.dead = hit \/ fell, !.x = x2,
                                           !.highest = highest],
             !.best = best,
             !.events = events2]

\* a faulty afterSteps that applies left before right
afterStepsLeftFirst(game, k) ==
  LET jumper == game.jumpers[k]
      hit == \E e \in DOMAIN game.enemies :
                /\ Abs(game.enemies[e].x - jumper.x) < (5 * One) \div 100
                /\ Abs(game.enemies[e].y - jumper.y) < (5 * One) \div 100
      x1 == IF jumper.left /\ jumper.x > playerHalfWidth
            THEN jumper.x - moveSpeed ELSE jumper.x
      x2 == IF jumper.right /\ x1 < One - playerHalfWidth THEN x1 + moveSpeed ELSE x1
      highest == Max(jumper.highest, jumper.y)
      best == IF jumper.id \notin DOMAIN game.best
              THEN (jumper.id :> highest) @@ game.best
              ELSE IF game.best[jumper.id] = 0 \/ highest > game.best[jumper.id]
              THEN [game.best EXCEPT ![jumper.id] = highest]
              ELSE game.best
      fell == jumper.y < highest - (One \div 2) /\ ~hit
      events1 == IF hit THEN Append(game.events, Event(DIE, jumper.id))
                 ELSE game.events
      events2 == IF fell THEN Append(events1, Event(DIE, jumper.id)) ELSE events1
  IN IF jumper.dead THEN game
     ELSE [game EXCEPT
             !.jumpers[k] = [jumper EXCEPT !.dead = hit \/ fell, !.x = x2,
                                           !.highest = highest],
             !.best = best,
             !.events = events2]

\* a faulty afterSteps that moves the jumper whatever its x
afterStepsUnbounded(game, k) ==
  LET jumper == game.jumpers[k]
      hit == \E e \in DOMAIN game.enemies :
                /\ Abs(game.enemies[e].x - jumper.x) < (5 * One) \div 100
                /\ Abs(game.enemies[e].y - jumper.y) < (5 * One) \div 100
      x1 == IF jumper.right THEN jumper.x + moveSpeed ELSE jumper.x
      x2 == IF jumper.left THEN x1 - moveSpeed ELSE x1
      highest == Max(jumper.highest, jumper.y)
      best == IF jumper.id \notin DOMAIN game.best
              THEN (jumper.id :> highest) @@ game.best
              ELSE IF game.best[jumper.id] = 0 \/ highest > game.best[jumper.id]
              THEN [game.best EXCEPT ![jumper.id] = highest]
              ELSE game.best
      fell == jumper.y < highest - (One \div 2) /\ ~hit
      events1 == IF hit THEN Append(game.events, Event(DIE, jumper.id))
                 ELSE game.events
      events2 == IF fell THEN Append(events1, Event(DIE, jumper.id)) ELSE events1
  IN IF jumper.dead THEN game
     ELSE [game EXCEPT
             !.jumpers[k] = [jumper EXCEPT !.dead = hit \/ fell, !.x = x2,
                                           !.highest = highest],
             !.best = best,
             !.events = events2]

\* a faulty afterSteps without the fall-off check
afterStepsNoFall(game, k) ==
  LET jumper == game.jumpers[k]
      hit == \E e \in DOMAIN game.enemies :
                /\ Abs(game.enemies[e].x - jumper.x) < (5 * One) \div 100
                /\ Abs(game.enemies[e].y - jumper.y) < (5 * One) \div 100
      x1 == IF jumper.right /\ jumper.x < One - playerHalfWidth
            THEN jumper.x + moveSpeed ELSE jumper.x
      x2 == IF jumper.left /\ x1 > playerHalfWidth THEN x1 - moveSpeed ELSE x1
      highest == Max(jumper.highest, jumper.y)
      best == IF jumper.id \notin DOMAIN game.best
              THEN (jumper.id :> highest) @@ game.best
              ELSE IF game.best[jumper.id] = 0 \/ highest > game.best[jumper.id]
              THEN [game.best EXCEPT ![jumper.id] = highest]
              ELSE game.best
      fell == FALSE
      events1 == IF hit THEN Append(game.events, Event(DIE, jumper.id))
                 ELSE game.events
      events2 == IF fell THEN Append(events1, Event(DIE, jumper.id)) ELSE events1
  IN IF jumper.dead THEN game
     ELSE [game EXCEPT
             !.jumpers[k] = [jumper EXCEPT !.dead = hit \/ fell, !.x = x2,
                                           !.highest = highest],
             !.best = best,
             !.events = events2]

\* "non-step based collision and movement" for the jumper at game.jumpers[k]
afterSteps(game, k) ==
  LET jumper == game.jumpers[k]
      hit == \E e \in DOMAIN game.enemies :
                /\ Abs(game.enemies[e].x - jumper.x) < (5 * One) \div 100
                /\ Abs(game.enemies[e].y - jumper.y) < (5 * One) \div 100
      x1 == IF jumper.right /\ jumper.x < One - playerHalfWidth
            THEN jumper.x + moveSpeed ELSE jumper.x
      x2 == IF jumper.left /\ x1 > playerHalfWidth THEN x1 - moveSpeed ELSE x1
      highest == Max(jumper.highest, jumper.y)
      best == IF jumper.id \notin DOMAIN game.best
              THEN (jumper.id :> highest) @@ game.best
              ELSE IF game.best[jumper.id] = 0 \/ highest > game.best[jumper.id]
              THEN [game.best EXCEPT ![jumper.id] = highest]
              ELSE game.best
      fell == jumper.y < highest - (One \div 2) /\ ~hit
      events1 == IF hit THEN Append(game.events, Event(DIE, jumper.id))
                 ELSE game.events
      events2 == IF fell THEN Append(events1, Event(DIE, jumper.id)) ELSE events1
  IN IF jumper.dead THEN game
     ELSE [game EXCEPT
             !.jumpers[k] = [jumper EXCEPT !.dead = hit \/ fell, !.x = x2,
                                           !.highest = highest],
             !.best = best,
             !.events = events2]

\* the loop over game.jumpers, from the jumper at position k on
RECURSIVE stepJumpers(_, _, _)
stepJumpers(game, k, now) ==
  IF k > Len(game.jumpers) THEN game
  ELSE LET pulled == [game EXCEPT !.jumpers[k].vy = @ + gravity]
       IN stepJumpers(afterSteps(subSteps(pulled, k, 0, now), k), k + 1, now)

\* a faulty in-game branch that moves nothing once the game is over
physicsGated(game, now) ==
  IF gameOver(game, now) THEN game
  ELSE stepJumpers([game EXCEPT
                      !.platforms = fallPlatforms(game.platforms),
                      !.enemies = [e \in DOMAIN game.enemies |->
                                     moveEnemy(game.enemies[e])]],
                   1, now)

\* the else branch of update: "we're in game, so we need to move and
\* collide everything"
physics(game, now) ==
  stepJumpers([game EXCEPT
                 !.platforms = fallPlatforms(game.platforms),
                 !.enemies = [e \in DOMAIN game.enemies |-> moveEnemy(game.enemies[e])]],
              1, now)

\* a faulty lobby branch that lets only the players with a jumper bounce
lobbyBouncesJumpers(game, now, allPlayerIds) ==
  LET arm == Len(game.jumpers) = Len(allPlayerIds) /\ game.startAt = Unset
      armed == IF arm
               THEN [game EXCEPT !.startAt = now + (1000 * 3),
                                 !.events = Append(@, Event(START_NEW_GAME, NoPlayer))]
               ELSE game
  IN IF armed.startAt > 0 /\ now > armed.startAt
     THEN [armed EXCEPT
             !.jumping = TRUE,
             !.events = @ \o [n \in DOMAIN game.jumpers |->
                                Event(BOUNCE, game.jumpers[n].id)]]
     ELSE armed

\* a faulty lobby branch that starts the round in the tick that arms it
lobbyStartsAtOnce(game, now, allPlayerIds) ==
  LET arm == Len(game.jumpers) = Len(allPlayerIds) /\ game.startAt = Unset
      armed == IF arm
               THEN [game EXCEPT !.startAt = now + (1000 * 3),
                                 !.events = Append(@, Event(START_NEW_GAME, NoPlayer))]
               ELSE game
  IN IF armed.startAt > 0 /\ now + (1000 * 3) >= armed.startAt
     THEN [armed EXCEPT
             !.jumping = TRUE,
             !.events = @ \o [n \in DOMAIN allPlayerIds |-> Event(BOUNCE, allPlayerIds[n])]]
     ELSE armed

\* a faulty lobby branch that arms the countdown again on every tick on which
\* the counts match
lobbyRearms(game, now, allPlayerIds) ==
  LET arm == Len(game.jumpers) = Len(allPlayerIds)
      armed == IF arm
               THEN [game EXCEPT !.startAt = now + (1000 * 3),
                                 !.events = Append(@, Event(START_NEW_GAME, NoPlayer))]
               ELSE game
  IN IF armed.startAt > 0 /\ now > armed.startAt
     THEN [armed EXCEPT
             !.jumping = TRUE,
             !.events = @ \o [n \in DOMAIN allPlayerIds |-> Event(BOUNCE, allPlayerIds[n])]]
     ELSE armed

\* the branch of update for a game that has not started
lobby(game, now, allPlayerIds) ==
  LET arm == Len(game.jumpers) = Len(allPlayerIds) /\ game.startAt = Unset
      armed == IF arm
               THEN [game EXCEPT !.startAt = now + (1000 * 3),
                                 !.events = Append(@, Event(START_NEW_GAME, NoPlayer))]
               ELSE game
  IN IF armed.startAt > 0 /\ now > armed.startAt
     THEN [armed EXCEPT
             !.jumping = TRUE,
             !.events = @ \o [n \in DOMAIN allPlayerIds |-> Event(BOUNCE, allPlayerIds[n])]]
     ELSE armed

\* the first block of update: "if the game is in play and we've reached game
\* over state then stop the game and declare the winner".  winner is
\* undefined when the jumpers list is empty, and reading winner.id then
\* throws a TypeError: the statements before it have taken effect.
declareWinner(game, now) ==
  IF game.jumping /\ game.gameRestartTime = Unset /\ gameOver(game, now)
  THEN LET over == [game EXCEPT !.gameRestartTime = now + 3000,
                                !.events = Append(@, Event(WIN, NoPlayer))]
           sorted == sortByHighest(game.jumpers)
       IN IF sorted = <<>>
          THEN [game |-> over, thrown |-> TRUE]
          ELSE [game |-> [over EXCEPT !.scores = creditWinner(@, sorted[1].id)],
                thrown |-> FALSE]
  ELSE [game |-> game, thrown |-> FALSE]

\* a faulty update that does not empty the events list
updateKeepsEvents(game0, now, allPlayerIds, s) ==
  LET declared == declareWinner(game0, now)
      game == declared.game
  IN IF declared.thrown THEN declared
     ELSE IF game.gameRestartTime # Unset /\ now > game.gameRestartTime
     THEN [game |-> startGame(game, s), thrown |-> FALSE]
     ELSE IF ~game.jumping
     THEN [game |-> lobby(game, now, allPlayerIds), thrown |-> FALSE]
     ELSE [game |-> physics(game, now), thrown |-> FALSE]

\* a faulty update that picks a new theme on every update
updateRandomTheme(game0, now, allPlayerIds, s) ==
  LET declared == declareWinner([game0 EXCEPT !.events = <<>>], now)
      game == [declared.game EXCEPT !.theme = (Draw(s, 1) * 5) \div RandScale]
  IN IF declared.thrown THEN declared
     ELSE IF game.gameRestartTime # Unset /\ now > game.gameRestartTime
     THEN [game |-> startGame(game, s), thrown |-> FALSE]
     ELSE IF ~game.jumping
     THEN [game |-> lobby(game, now, allPlayerIds), thrown |-> FALSE]
     ELSE [game |-> physics(game, now), thrown |-> FALSE]

\* update(context), with Rune.gameTime() = now, context.allPlayerIds =
\* allPlayerIds and Math.random() yielding stream s
update(game0, now, allPlayerIds, s) ==
  LET declared == declareWinner([game0 EXCEPT !.events = <<>>], now)
      game == declared.game
  IN IF declared.thrown THEN declared
     ELSE IF game.gameRestartTime # Unset /\ now > game.gameRestartTime
     THEN [game |-> startGame(game, s), thrown |-> FALSE]
     ELSE IF ~game.jumping
     THEN [game |-> lobby(game, now, allPlayerIds), thrown |-> FALSE]
     ELSE [game |-> physics(game, now), thrown |-> FALSE]

\* a faulty join that starts the row of jumpers at the middle
joinFixedBase(game, type, playerId, allPlayerIds) ==
  LET baseX == One \div 2
      x == (indexOf(allPlayerIds, playerId) * (One \div 5)) + baseX
  IN [game EXCEPT
        !.jumpers = Append(@, [x |-> x, y |-> rowHeight, highest |-> rowHeight,
                               id |-> playerId, type |-> type,
                               vy |-> defaultJumpPower, left |-> FALSE,
                               right |-> FALSE, dead |-> FALSE])]

\* actions.join({ type }, context), context.playerId = playerId
join(game, type, playerId, allPlayerIds) ==
  LET baseX == (One \div 2) - ((Len(allPlayerIds) - 1) * (One \div 10))
      x == (indexOf(allPlayerIds, playerId) * (One \div 5)) + baseX
  IN [game EXCEPT
        !.jumpers = Append(@, [x |-> x, y |-> rowHeight, highest |-> rowHeight,
                               id |-> playerId, type |-> type,
                               vy |-> defaultJumpPower, left |-> FALSE,
                               right |-> FALSE, dead |-> FALSE])]

\* a faulty controls that moves the caller's jumper at once
controlsMoves(game, left, right, playerId) ==
  LET k == findId(game.jumpers, playerId)
  IN IF k # 0
     THEN [game EXCEPT !.jumpers[k].right = right, !.jumpers[k].left = left,
                       !.jumpers[k].x = IF right THEN @ + moveSpeed ELSE @]
     ELSE game

\* a faulty controls that brings the caller's jumper back to life
controlsRevive(game, left, right, playerId) ==
  LET k == findId(game.jumpers, playerId)
  IN IF k # 0
     THEN [game EXCEPT !.jumpers[k].right = right, !.jumpers[k].left = left,
                       !.jumpers[k].dead = FALSE]
     ELSE game

\* actions.controls({ controls }, context), context.playerId = playerId
controls(game, left, right, playerId) ==
  LET k == findId(game.jumpers, playerId)
  IN IF k # 0
     THEN [game EXCEPT !.jumpers[k].right = right, !.jumpers[k].left = left]
     ELSE game

\* a faulty playerLeft that also stops the countdown
playerLeftResetsCountdown(game, playerId) ==
  [game EXCEPT !.jumpers = filterOut(@, playerId), !.startAt = Unset]

\* a faulty playerLeft that removes every jumper
playerLeftClears(game, playerId) ==
  [game EXCEPT !.jumpers = <<>>]

\* events.playerLeft(playerId, context)
playerLeft(game, playerId) ==
  [game EXCEPT !.jumpers = filterOut(@, playerId)]

(***************************************************************************)
(* The session: the host runtime drives the logic                          *)
(***************************************************************************)
VARIABLES
  game,          \* the GameState
  now,           \* Rune.gameTime() at the latest update
  allPlayerIds,  \* the connected players, in the host's order
  thrown,        \* an update has thrown: the session is over
  inputs,        \* actions and connection events that have arrived so far
  gen            \* the generator loop's state (SpecGen only)

vars == <<game, now, allPlayerIds, thrown, inputs, gen>>

\* gen while no generator loop is being stepped
GenIdle == [i |-> 0, stop |-> 0, platforms |-> <<>>, lastValidRow |-> 0, lastSpike |-> 0]

Init ==
  /\ \E s \in SessionStreams : game = setup(s)
  /\ now = 0
  /\ allPlayerIds = <<PlayerIds[1]>>
  /\ thrown = FALSE
  /\ inputs = 0
  /\ gen = GenIdle

\* whether the model lets an action or a connection event arrive now
InputOpen ==
  /\ inputs < MaxInputs
  /\ (\/ ~game.jumping
      \/ game.gameRestartTime # Unset
      \/ now - game.startAt <= MaxLateInput)

\* the host calls update, the clock having advanced by dt
Tick ==
  /\ ~thrown
  /\ \E dt \in ClockSteps, s \in SessionStreams :
       /\ now + dt <= MaxTime
       /\ (\/ game.jumping \/ game.startAt # Unset
           \/ Len(game.jumpers) = Len(allPlayerIds)
           \/ now + dt <= MaxIdleTime)
       /\ now' = now + dt
       /\ LET r == update(game, now + dt, allPlayerIds, s)
          IN game' = r.game /\ thrown' = r.thrown
  /\ UNCHANGED <<allPlayerIds, inputs, gen>>

\* a connected player sends the join action
Join ==
  /\ ~thrown
  /\ InputOpen
  /\ Len(game.jumpers) < MaxJumpers
  /\ \E n \in DOMAIN allPlayerIds, type \in JumperTypes :
       game' = join(game, type, allPlayerIds[n], allPlayerIds)
  /\ inputs' = inputs + 1
  /\ UNCHANGED <<now, allPlayerIds, thrown, gen>>

\* a connected player sends the controls action
Controls ==
  /\ ~thrown
  /\ InputOpen
  /\ \E n \in DOMAIN allPlayerIds, left \in BOOLEAN, right \in BOOLEAN :
       game' = controls(game, left, right, allPlayerIds[n])
  /\ inputs' = inputs + 1
  /\ UNCHANGED <<now, allPlayerIds, thrown, gen>>

\* a player connects: events.playerJoined does nothing
PlayerJoined ==
  /\ ~thrown
  /\ InputOpen
  /\ Len(allPlayerIds) < maxPlayers
  /\ \E p \in Players :
       /\ indexOf(allPlayerIds, p) < 0
       /\ allPlayerIds' = Append(allPlayerIds, p)
  /\ inputs' = inputs + 1
  /\ UNCHANGED <<game, now, thrown, gen>>

\* a player disconnects (the host keeps at least minPlayers connected)
PlayerLeft ==
  /\ ~thrown
  /\ InputOpen
  /\ Len(allPlayerIds) > minPlayers
  /\ \E n \in DOMAIN allPlayerIds :
       /\ allPlayerIds' = [m \in 1 .. (Len(allPlayerIds) - 1) |->
                             IF m < n THEN allPlayerIds[m] ELSE allPlayerIds[m + 1]]
       /\ game' = playerLeft(game, allPlayerIds[n])
  /\ inputs' = inputs + 1
  /\ UNCHANGED <<now, thrown, gen>>

Next == Tick \/ Join \/ Controls \/ PlayerJoined \/ PlayerLeft

Spec == Init /\ [][Next]_vars

(***************************************************************************)
(* The generator loop on its own, one iteration per step.  The loop starts *)
(* at row 5, or at the first row that can carry hazards, having generated  *)
(* the rows below with every placement roll failing; from there on every   *)
(* Math.random() takes any value of RandomDraws, for GenFreeRows rows.     *)
(***************************************************************************)
GenStarts == {5, 31}

\* the loop's state at row `from`, every roll below it having drawn 999
RECURSIVE genPrefix(_, _, _)
genPrefix(g, i, from) ==
  IF i >= from THEN [i |-> from, stop |-> from + GenFreeRows, platforms |-> g.platforms,
                     lastValidRow |-> g.lastValidRow, lastSpike |-> g.lastSpike]
  ELSE genPrefix(generateRow(g, i, <<999, 999, 999, 999, 999>>), i + 1, from)

GenInit ==
  /\ game = setup(1)
  /\ now = 0
  /\ allPlayerIds = <<PlayerIds[1]>>
  /\ thrown = FALSE
  /\ inputs = 0
  /\ \E from \in GenStarts :
       gen = genPrefix([platforms |-> (0 :> startPlatform), lastValidRow |-> 0,
                        lastSpike |-> 0], 5, from)

\* one iteration of "for (let i = 5; i < 1000; i++)"
GenStep ==
  /\ gen.i < gen.stop
  /\ \E d \in [1 .. 5 -> RandomDraws] :
       LET r == generateRow(gen, gen.i, d)
       IN gen' = [i |-> gen.i + 1, stop |-> gen.stop, platforms |-> r.platforms,
                  lastValidRow |-> r.lastValidRow, lastSpike |-> r.lastSpike]
  /\ UNCHANGED <<game, now, allPlayerIds, thrown, inputs>>

SpecGen == GenInit /\ [][GenStep]_vars

(***************************************************************************)
(* A round played through, update by update.  The session starts with one  *)
(* or two players connected and one of the levels of PlayStreams; every    *)
(* connected player joins once and may set its controls before the first   *)
(* update; then the host calls update every PlayStep milliseconds.         *)
(***************************************************************************)
PlayInit ==
  /\ \E s \in PlayStreams : game = setup(s)
  /\ now = 0
  /\ \E n \in 1 .. Len(PlayerIds) : allPlayerIds = SubSeq(PlayerIds, 1, n)
  /\ thrown = FALSE
  /\ inputs = 0
  /\ gen = GenIdle

\* a connected player without a jumper sends the join action
PlayJoin ==
  /\ now = 0
  /\ \E n \in DOMAIN allPlayerIds, type \in JumperTypes :
       /\ findId(game.jumpers, allPlayerIds[n]) = 0
       /\ game' = join(game, type, allPlayerIds[n], allPlayerIds)
  /\ UNCHANGED <<now, allPlayerIds, thrown, inputs, gen>>

\* a player sends the controls action before the first update
PlayControls ==
  /\ now = 0
  /\ \E n \in DOMAIN allPlayerIds, left \in BOOLEAN, right \in BOOLEAN :
       game' = controls(game, left, right, allPlayerIds[n])
  /\ UNCHANGED <<now, allPlayerIds, thrown, inputs, gen>>

\* the host calls update, every player having joined
PlayTick ==
  /\ ~thrown
  /\ Len(game.jumpers) = Len(allPlayerIds) \/ game.startAt # Unset
  /\ now + PlayStep <= PlayMaxTime
  /\ now' = now + PlayStep
  /\ \E s \in PlayStreams :
       LET r == update(game, now + PlayStep, allPlayerIds, s)
       IN game' = r.game /\ thrown' = r.thrown
  /\ UNCHANGED <<allPlayerIds, inputs, gen>>

PlayNext == PlayJoin \/ PlayControls \/ PlayTick

SpecPlay == PlayInit /\ [][PlayNext]_vars

(***************************************************************************)
(* Horizontal movement.  One to maxPlayers players are connected; every    *)
(* connected player joins once, in any order, before the first update;     *)
(* then the host calls update every MoveStep milliseconds.  The player who *)
(* joined first sends controls actions, any number of them at any time;    *)
(* the other players leave their controls alone.                           *)
(***************************************************************************)
MovePlayerIds == <<"p1", "p2", "p3", "p4">>

MoveInit ==
  /\ game = setup(1)
  /\ now = 0
  /\ \E n \in 1 .. maxPlayers : allPlayerIds = SubSeq(MovePlayerIds, 1, n)
  /\ thrown = FALSE
  /\ inputs = 0
  /\ gen = GenIdle

\* a connected player without a jumper sends the join action
MoveJoin ==
  /\ now = 0
  /\ \E n \in DOMAIN allPlayerIds, type \in JumperTypes :
       /\ findId(game.jumpers, allPlayerIds[n]) = 0
       /\ game' = join(game, type, allPlayerIds[n], allPlayerIds)
  /\ UNCHANGED <<now, allPlayerIds, thrown, inputs, gen>>

\* the player who joined first sends the controls action
MoveControls ==
  /\ game.jumpers # <<>>
  /\ \E left \in BOOLEAN, right \in BOOLEAN :
       game' = controls(game, left, right, game.jumpers[1].id)
  /\ UNCHANGED <<now, allPlayerIds, thrown, inputs, gen>>

\* the host calls update, every player having joined
MoveTick ==
  /\ ~thrown
  /\ Len(game.jumpers) = Len(allPlayerIds) \/ game.startAt # Unset
  /\ now + MoveStep <= MoveMaxTime
  /\ now' = now + MoveStep
  /\ LET r == update(game, now + MoveStep, allPlayerIds, 1)
     IN game' = r.game /\ thrown' = r.thrown
  /\ UNCHANGED <<allPlayerIds, inputs, gen>>

MoveNext == MoveJoin \/ MoveControls \/ MoveTick

SpecMove == MoveInit /\ [][MoveNext]_vars

(***************************************************************************)
(* A session whose rounds run to their end: the host keeps calling update  *)
(* (updatesPerSecond: 30) with an advancing clock; the lobby is left alone *)
(* after LiveMaxTime, a round in play is updated until it is reset         *)
(***************************************************************************)
\* the latest clock value a round armed by LiveMaxTime can need: startAt is
\* at most LiveMaxTime + 3000, the winner is declared at most two round
\* times after startAt and the reset comes at most 3000 ms and one more
\* clock step later
LiveEndTime == LiveMaxTime + (3 * roundTime) + 6000

LiveInit ==
  /\ \E s \in LiveStreams : game = setup(s)
  /\ now = 0
  /\ allPlayerIds = <<PlayerIds[1]>>
  /\ thrown = FALSE
  /\ inputs = 0
  /\ gen = GenIdle

\* whether the host calls update when the clock has advanced by dt
LiveTickOpen(dt) ==
  /\ ~thrown
  /\ \/ now + dt <= LiveMaxTime
     \/ game.jumping /\ now + dt <= LiveEndTime
  /\ (\/ game.jumping \/ game.startAt # Unset
      \/ Len(game.jumpers) = Len(allPlayerIds)
      \/ now + dt <= MaxIdleTime)

\* the host calls update, the clock having advanced by dt
LiveTick ==
  /\ \E dt \in ClockSteps, s \in LiveStreams :
       /\ LiveTickOpen(dt)
       /\ now' = now + dt
       /\ LET r == update(game, now + dt, allPlayerIds, s)
          IN game' = r.game /\ thrown' = r.thrown
  /\ UNCHANGED <<allPlayerIds, inputs, gen>>

LiveNext == LiveTick \/ Join \/ Controls \/ PlayerJoined \/ PlayerLeft

\* what LiveTick does to the clock.  LiveTick is the only action that
\* changes now and it is enabled exactly when ClockAdvance is, so weak
\* fairness of ClockAdvance on now is weak fairness of LiveTick: the host
\* does not stop calling update.
ClockAdvance == \E dt \in ClockSteps : LiveTickOpen(dt) /\ now' = now + dt

SpecLive == LiveInit /\ [][LiveNext]_vars /\ WF_now(ClockAdvance)

(***************************************************************************)
(* A round that runs out of time while the jumpers climb: two players on   *)
(* OvertakeLevel or SharedFallerLevel, the host clock advancing by         *)
(* PlayStep or, once, by a whole round time                                *)
(***************************************************************************)
OverInit ==
  /\ \E s \in OverStreams : game = setup(s)
  /\ now = 0
  /\ allPlayerIds = PlayerIds
  /\ thrown = FALSE
  /\ inputs = 0
  /\ gen = GenIdle

\* the host calls update, every player having joined
OverTick ==
  /\ ~thrown
  /\ Len(game.jumpers) = Len(allPlayerIds) \/ game.startAt # Unset
  /\ \E dt \in {PlayStep, roundTime}, s \in OverStreams :
       /\ now + dt <= OverMaxTime
       /\ now' = now + dt
       /\ LET r == update(game, now + dt, allPlayerIds, s)
          IN game' = r.game /\ thrown' = r.thrown
  /\ UNCHANGED <<allPlayerIds, inputs, gen>>

OverNext == PlayJoin \/ OverTick

SpecOver == OverInit /\ [][OverNext]_vars

(***************************************************************************)
(* Properties                                                              *)
(***************************************************************************)
\* the step is a call of update: only update reads a new clock value
TickStep == now' # now

\* the step is the update that resets the round
ResetStep ==
  TickStep /\ game.gameRestartTime # Unset /\ now' > game.gameRestartTime

\* the step is an update that starts with the round in play, no winner
\* declared and the game-over predicate true
WinTick ==
  TickStep /\ game.jumping /\ game.gameRestartTime = Unset /\ gameOver(game, now')

\* the phase of the round state machine a state is in
Phase(g) ==
  IF g.jumping
  THEN (IF g.gameRestartTime = Unset THEN "ACTIVE" ELSE "ROUND_OVER")
  ELSE (IF g.startAt = Unset THEN "LOBBY" ELSE "COUNTDOWN")

NextPhase(p) ==
  CASE p = "LOBBY" -> "COUNTDOWN"
    [] p = "COUNTDOWN" -> "ACTIVE"
    [] p = "ACTIVE" -> "ROUND_OVER"
    [] p = "ROUND_OVER" -> "LOBBY"

\* the three fields are in one of the four combinations: a round in play has
\* been armed, and a winner is declared only for a round in play
PhaseFields(g) ==
  /\ g.jumping => g.startAt # Unset
  /\ ~g.jumping => g.gameRestartTime = Unset

\* C1: every step keeps the phase or moves it to the next phase of the cycle
\* LOBBY -> COUNTDOWN -> ACTIVE -> ROUND_OVER -> LOBBY; only an update moves
\* it; and startAt, jumping and gameRestartTime are always in one of the four
\* combinations.
C1_PhaseCycle ==
  [][/\ PhaseFields(game) /\ PhaseFields(game')
     /\ \/ Phase(game') = Phase(game)
        \/ TickStep /\ Phase(game') = NextPhase(Phase(game))]_vars

\* a second round's lobby, a player having joined it: the cycle was closed
C1_Witness ==
  /\ Phase(game) = "LOBBY"
  /\ game.scores # <<>>
  /\ game.jumpers # <<>>

\* the entry of scores for id, 0 when there is none
ScoreOf(scores, id) == IF id \in DOMAIN scores THEN scores[id] ELSE 0

\* the number of WIN events in an event list
WinCount(events) == Cardinality({n \in DOMAIN events : events[n].type = WIN})

\* from scores to scores2 the entry of id went up by 1 and nothing else changed
CreditedOnly(scores, scores2, id) ==
  /\ DOMAIN scores2 = DOMAIN scores \cup {id}
  /\ scores2[id] = ScoreOf(scores, id) + 1
  /\ \A other \in DOMAIN scores2 \ {id} : scores2[other] = scores[other]

\* C2: an update emits a WIN event exactly when it starts with jumping true,
\* gameRestartTime unset and the game-over predicate true, and then it emits
\* one; that update sets gameRestartTime to now + 3000 and raises exactly one
\* player's scores entry, by exactly 1; no other step changes scores.
C2_OneWinOneCredit ==
  [][/\ TickStep => WinCount(game'.events) = (IF WinTick THEN 1 ELSE 0)
     /\ WinTick => /\ game'.gameRestartTime = now' + 3000
                   /\ \E id \in Players : CreditedOnly(game.scores, game'.scores, id)
     /\ ~WinTick => game'.scores = game.scores]_vars

\* C2, restricted to the updates that run to completion: the update that
\* throws emits WIN and sets gameRestartTime but credits nobody.
C2_WhenUpdateCompletes ==
  [][/\ TickStep => WinCount(game'.events) = (IF WinTick THEN 1 ELSE 0)
     /\ (WinTick /\ ~thrown') =>
           /\ game'.gameRestartTime = now' + 3000
           /\ \E id \in Players : CreditedOnly(game.scores, game'.scores, id)
     /\ ~WinTick => game'.scores = game.scores]_vars

\* a winner was credited: the update that declared it ran to completion
C2_Witness ==
  /\ ~thrown
  /\ game.gameRestartTime # Unset
  /\ \E id \in Players : ScoreOf(game.scores, id) = 1

\* C3: no update throws, whatever joins, controls, connects and disconnects
\* arrive between the updates.
C3_NoFatalCondition == ~thrown

\* C3, what the code does keep: an update throws only when it starts with the
\* round in play, no winner declared, the game-over predicate true and no
\* jumper in the list; it throws having set gameRestartTime and pushed WIN.
C3_ThrowsOnlyOnEmptyRound ==
  [][(thrown' /\ ~thrown) =>
       /\ WinTick
       /\ game.jumpers = <<>>
       /\ game'.gameRestartTime = now' + 3000
       /\ WinCount(game'.events) = 1
       /\ game'.scores = game.scores]_vars

\* the round is in play with no jumper left while a player is connected:
\* the state from which the next update throws
C3_EmptyRoundInPlay ==
  /\ ~thrown
  /\ game.jumping
  /\ game.gameRestartTime = Unset
  /\ game.jumpers = <<>>
  /\ Len(allPlayerIds) >= minPlayers

\* row r holds a platform without spikes that does not fall
Walkable(platforms, r) ==
  /\ r \in DOMAIN platforms
  /\ ~platforms[r].spikes
  /\ ~platforms[r].faller

\* no five consecutive rows below row n lack a walkable platform
NoGap(platforms, n) ==
  \A r \in 0 .. (n - 5) : \E q \in r .. (r + 4) : Walkable(platforms, q)

\* C4: whenever the generator considers a row i, i - lastValidRow is at most
\* 5, and the rows generated so far hold no run of 5 consecutive rows without
\* a walkable platform; so does every level of a session.
C4_Reachability ==
  /\ gen.i < gen.stop => gen.i - gen.lastValidRow <= 5
  /\ NoGap(gen.platforms, gen.i)
  /\ NoGap(game.platforms, NumRows)

\* the loop has just forced a platform after four rows without a walkable
\* one, a spiked and a falling platform among them
C4_Witness ==
  /\ gen.i = gen.stop
  /\ gen.i > 31
  /\ gen.lastValidRow = gen.i - 1
  /\ \A q \in (gen.i - 5) .. (gen.i - 2) : ~Walkable(gen.platforms, q)
  /\ \E q \in (gen.i - 5) .. (gen.i - 2) :
       q \in DOMAIN gen.platforms /\ gen.platforms[q].spikes
  /\ \E q \in (gen.i - 5) .. (gen.i - 2) :
       q \in DOMAIN gen.platforms /\ gen.platforms[q].faller

\* the rank of the entry at position k among the entries of js with its id
Occurrence(js, k) == Cardinality({m \in 1 .. k : js[m].id = js[k].id})

\* position k of js and position k2 of js2 hold the same jumper entry, js2
\* being the jumpers list one step after js
SameEntry(js, k, js2, k2) ==
  /\ js[k].id = js2[k2].id
  /\ Occurrence(js, k) = Occurrence(js2, k2)

\* C5: a jumper entry that is dead is dead after every step that keeps it.
C5_DeathIsTerminal ==
  [][\A k \in DOMAIN game.jumpers, k2 \in DOMAIN game'.jumpers :
       (SameEntry(game.jumpers, k, game'.jumpers, k2) /\ game.jumpers[k].dead)
         => game'.jumpers[k2].dead]_vars

\* a jumper has died and its entry is still there, dead, after the round
\* has ended and controls were sent for it
C5_Witness ==
  /\ game.gameRestartTime # Unset
  /\ \E k \in DOMAIN game.jumpers :
       game.jumpers[k].dead /\ game.jumpers[k].right

\* C6: no step lowers the highest of a jumper entry it keeps, and no step
\* lowers or removes an entry of best.
C6_MonotonicHeight ==
  [][/\ \A k \in DOMAIN game.jumpers, k2 \in DOMAIN game'.jumpers :
          SameEntry(game.jumpers, k, game'.jumpers, k2)
            => game'.jumpers[k2].highest >= game.jumpers[k].highest
     /\ \A id \in DOMAIN game.best :
          id \in DOMAIN game'.best /\ game'.best[id] >= game.best[id]]_vars

\* after a reset a player has joined again: the new entry starts below the
\* best of the player, which was kept
C6_Witness ==
  /\ game.scores # <<>>
  /\ ~game.jumping
  /\ \E k \in DOMAIN game.jumpers :
       /\ game.jumpers[k].id \in DOMAIN game.best
       /\ game.jumpers[k].highest < game.best[game.jumpers[k].id]

\* the game-over predicate as the specification states it
gameOverReference(state, t) ==
  /\ state.startAt # Unset
  /\ \/ \A k \in DOMAIN state.jumpers : state.jumpers[k].dead
     \/ t - state.startAt > 120000

\* the clock values gameOver is compared at: the current one and those
\* around the end of the round time
ClockValues ==
  {now, game.startAt + roundTime - 1, game.startAt + roundTime,
   game.startAt + roundTime + 1}

\* C7: gameOver agrees with the reference predicate in every state, at every
\* clock value.
C7_GameOverPredicate ==
  \A t \in ClockValues : gameOver(game, t) = gameOverReference(game, t)

\* the round time has run out on a jumper that is alive
C7_Witness ==
  /\ game.startAt # Unset
  /\ \E k \in DOMAIN game.jumpers : ~game.jumpers[k].dead
  /\ now - game.startAt > roundTime
  /\ gameOver(game, now)
  /\ ~gameOver(game, game.startAt + roundTime)

\* the position of the earliest jumper among those with the greatest highest
FirstHighest(js) ==
  CHOOSE k \in DOMAIN js :
    /\ \A m \in DOMAIN js : js[m].highest <= js[k].highest
    /\ \A m \in 1 .. (k - 1) : js[m].highest < js[k].highest

\* C8: a step that changes scores credits the jumper with the greatest
\* highest among the jumpers the update started with, the earliest in the
\* list when several share it.
C8_WinnerIsHighest ==
  [][game'.scores # game.scores =>
       /\ game.jumpers # <<>>
       /\ CreditedOnly(game.scores, game'.scores,
                       game.jumpers[FirstHighest(game.jumpers)].id)]_vars

\* a jumper behind another in the list was credited, having climbed higher
C8_Witness ==
  /\ game.gameRestartTime # Unset
  /\ Len(game.jumpers) = 2
  /\ game.jumpers[1].id # game.jumpers[2].id
  /\ game.jumpers[2].highest > game.jumpers[1].highest
  /\ game.scores = (game.jumpers[2].id :> 1)

\* the level of g is one the generator yields for a new game
FreshLevel(g) ==
  \E s \in DOMAIN RandomStreams :
    /\ g.platforms = setup(s).platforms
    /\ g.enemies = setup(s).enemies
    /\ g.theme = setup(s).theme

\* C9: the update that finds gameRestartTime set and passed leaves an empty
\* jumpers list, a fresh level, startAt and gameRestartTime unset, jumping
\* false and no events, and keeps scores and best; a round in play ends in
\* no other way; and gameRestartTime, set to now + 3000 by the update that
\* emits WIN, stays as it is until that reset.
C9_Reset ==
  [][/\ ResetStep =>
          /\ game'.jumpers = <<>>
          /\ FreshLevel(game')
          /\ game'.startAt = Unset
          /\ game'.gameRestartTime = Unset
          /\ ~game'.jumping
          /\ game'.events = <<>>
          /\ game'.scores = game.scores
          /\ game'.best = game.best
     /\ (game.jumping /\ ~game'.jumping) => ResetStep
     /\ (game.gameRestartTime = Unset /\ game'.gameRestartTime # Unset) =>
          /\ game'.gameRestartTime = now' + 3000
          /\ WinCount(game'.events) = 1
     /\ (game.gameRestartTime # Unset /\ game'.gameRestartTime # game.gameRestartTime)
          => ResetStep]_vars

\* the state a reset leaves: a new lobby, the winner's score and best kept
C9_Witness ==
  /\ game.scores # <<>>
  /\ game.best # <<>>
  /\ game.jumpers = <<>>
  /\ game.events = <<>>
  /\ Phase(game) = "LOBBY"
  /\ now > 3000

\* C10: startAt becomes set only in an update that starts with jumping false,
\* startAt unset and as many jumpers as connected players, and becomes
\* now + 3000; once set it changes only in the update that resets the round.
C10_CountdownArmedOnce ==
  [][/\ (game'.startAt # game.startAt /\ game'.startAt # Unset) =>
          /\ TickStep
          /\ ~game.jumping
          /\ game.startAt = Unset
          /\ Len(game.jumpers) = Len(allPlayerIds)
          /\ game'.startAt = now' + 3000
     /\ (game.startAt # Unset /\ game'.startAt # game.startAt) => ResetStep]_vars

\* the countdown is running, past the update that armed it, while the number
\* of jumpers differs from the number of connected players
C10_Witness ==
  /\ ~game.jumping
  /\ game.startAt # Unset
  /\ Len(game.jumpers) # Len(allPlayerIds)
  /\ now + 3000 > game.startAt

\* the number of events of the given type and player in an event list
EventCount(events, type, playerId) ==
  Cardinality({n \in DOMAIN events :
                 events[n].type = type /\ events[n].playerId = playerId})

\* C11: jumping goes from false to true only in an update that finds startAt
\* set and passed; that update leaves exactly one BOUNCE event per connected
\* player and nothing else in events, and moves no jumper, enemy or platform.
C11_RoundStart ==
  [][(~game.jumping /\ game'.jumping) =>
       /\ TickStep
       /\ game.startAt # Unset
       /\ now' > game.startAt
       /\ game'.startAt = game.startAt
       /\ Len(game'.events) = Len(allPlayerIds)
       /\ \A n \in DOMAIN allPlayerIds :
            EventCount(game'.events, BOUNCE, allPlayerIds[n]) = 1
       /\ game'.jumpers = game.jumpers
       /\ game'.enemies = game.enemies
       /\ game'.platforms = game.platforms]_vars

\* the round has just started and a connected player without a jumper got
\* its BOUNCE event
C11_Witness ==
  /\ game.jumping
  /\ \E n \in DOMAIN allPlayerIds :
       /\ findId(game.jumpers, allPlayerIds[n]) = 0
       /\ EventCount(game.events, BOUNCE, allPlayerIds[n]) = 1
  /\ \E k \in DOMAIN game.jumpers : game.jumpers[k].y = rowHeight

\* the step is an update that runs the in-game branch
PhysicsTick == TickStep /\ game.jumping /\ ~ResetStep /\ ~thrown'

\* from j to j2 the jumper fell freely for one update: gravity, then ten
\* sub-steps of a tenth of the velocity, no landing
FreeFall(j, j2) ==
  /\ j2.vy = j.vy + gravity
  /\ j2.y = j.y + steps * ((j.vy + gravity) \div steps)

\* from j to j2 the jumper landed: its velocity is not the one gravity gives
Landed(j, j2) == j2.vy # j.vy + gravity

\* what an update that runs the in-game branch does to enemies and platforms
WorldMoved ==
  /\ \A e \in DOMAIN game.enemies :
       Abs(game'.enemies[e].x - game.enemies[e].x) = game.enemies[e].speed
  /\ \A i \in DOMAIN game.platforms :
       game.platforms[i].falling =>
         /\ game'.platforms[i].vy = game.platforms[i].vy + gravity
         /\ game'.platforms[i].y = game.platforms[i].y + game'.platforms[i].vy

\* the update moved no jumper, enemy or platform
WorldStill ==
  /\ game'.jumpers = game.jumpers
  /\ game'.enemies = game.enemies
  /\ game'.platforms = game.platforms

\* C12 as stated: an update of a round that is over (game-over predicate
\* true or gameRestartTime set), other than the reset, changes no jumper's y
\* or vy, no enemy's x and no platform's y.
C12_NoMotionWhenOver ==
  [][(TickStep /\ ~ResetStep
        /\ (gameOver(game, now') \/ game.gameRestartTime # Unset)) =>
       /\ \A k \in DOMAIN game.jumpers :
            /\ game'.jumpers[k].y = game.jumpers[k].y
            /\ game'.jumpers[k].vy = game.jumpers[k].vy
       /\ \A e \in DOMAIN game.enemies : game'.enemies[e].x = game.enemies[e].x
       /\ \A i \in DOMAIN game.platforms :
            game'.platforms[i].y = game.platforms[i].y]_vars

\* C12, amended: the in-game branch runs in every update that starts with
\* jumping true, except the reset, also when the round is over: enemies and
\* falling platforms move, and a jumper that is dead or whose round is over
\* falls freely.  An update that starts with jumping false moves nothing.
C12_PhysicsWhileJumping ==
  [][TickStep =>
       /\ PhysicsTick =>
            /\ WorldMoved
            /\ \A k \in DOMAIN game.jumpers :
                 (game.jumpers[k].dead \/ gameOver(game, now'))
                   => FreeFall(game.jumpers[k], game'.jumpers[k])
       /\ ~game.jumping => WorldStill]_vars

\* a round that is over has been updated again: a live jumper is in the air
\* and a platform is falling
C12_Witness ==
  /\ game.gameRestartTime # Unset
  /\ game.events = <<>>
  /\ \E k \in DOMAIN game.jumpers :
       ~game.jumpers[k].dead /\ game.jumpers[k].vy # defaultJumpPower
  /\ \E i \in DOMAIN game.platforms : game.platforms[i].falling

\* the jumper's y after i sub-steps of an update without a landing
SubY(j, i) == j.y + i * ((j.vy + gravity) \div steps)

\* the conditions of a landing of jumper j on row idx at sub-step i
CanLand(g, j, i, idx) ==
  /\ j.vy + gravity < 0
  /\ idx = SubY(j, i) \div rowHeight
  /\ idx \in DOMAIN g.platforms
  /\ ~g.platforms[idx].falling
  /\ j.x > g.platforms[idx].x - playerHalfWidth
  /\ j.x < g.platforms[idx].x + g.platforms[idx].width + playerHalfWidth

\* from j to j2 the jumper landed on row idx of g at some sub-step
LandedOn(g, j, j2, idx) ==
  /\ Landed(j, j2)
  /\ j2.y = g.platforms[idx].y
  /\ \E i \in 1 .. steps : CanLand(g, j, i, idx)

\* C13: in an update a jumper leaves free fall only by a landing: it was
\* not dead, the game-over predicate was false, it was moving down and at one
\* of the sub-steps a platform that was not falling lay at row floor(y /
\* rowHeight) under its x; its y is then that platform's y and its vy a jump
\* power.  A jumper that is dead or whose round is over falls freely.
C13_LandingConditions ==
  [][PhysicsTick =>
       \A k \in DOMAIN game.jumpers :
         LET j == game.jumpers[k]
             j2 == game'.jumpers[k]
         IN /\ (j.dead \/ gameOver(game, now')) => FreeFall(j, j2)
            /\ ~Landed(j, j2) => FreeFall(j, j2)
            /\ Landed(j, j2) =>
                 /\ ~j.dead
                 /\ ~gameOver(game, now')
                 /\ \E idx \in DOMAIN game.platforms : LandedOn(game, j, j2, idx)
                 /\ j2.vy \in {defaultJumpPower, (defaultJumpPower * 3) \div 2}]_vars

\* a dead jumper is moving down through a row whose platform, not falling,
\* lies under its x
C13_Witness ==
  \E k \in DOMAIN game.jumpers :
    LET j == game.jumpers[k]
        idx == j.y \div rowHeight
    IN /\ j.dead
       /\ j.vy < 0
       /\ idx \in DOMAIN game.platforms
       /\ ~game.platforms[idx].falling
       /\ j.x > game.platforms[idx].x - playerHalfWidth
       /\ j.x < game.platforms[idx].x + game.platforms[idx].width + playerHalfWidth

\* C14: when a live jumper lands on a platform with spikes, the update
\* leaves it dead at the platform's y with vy = defaultJumpPower, and its
\* events hold exactly one DIE and no BOUNCE or SPRING event with its id.
C14_SpikeLanding ==
  [][PhysicsTick =>
       \A k \in DOMAIN game.jumpers, idx \in DOMAIN game.platforms :
         LET j == game.jumpers[k]
             j2 == game'.jumpers[k]
         IN (LandedOn(game, j, j2, idx) /\ game.platforms[idx].spikes) =>
              /\ ~j.dead
              /\ j2.dead
              /\ j2.y = game.platforms[idx].y
              /\ j2.vy = defaultJumpPower
              /\ ~game.platforms[idx].spring
              /\ EventCount(game'.events, DIE, j.id) = 1
              /\ EventCount(game'.events, BOUNCE, j.id) = 0
              /\ EventCount(game'.events, SPRING, j.id) = 0]_vars

\* a jumper has just died on the spikes of row 31
C14_Witness ==
  \E k \in DOMAIN game.jumpers :
    /\ game.jumpers[k].dead
    /\ 31 \in DOMAIN game.platforms
    /\ game.platforms[31].spikes
    /\ game.jumpers[k].y = game.platforms[31].y
    /\ game.jumpers[k].vy = defaultJumpPower
    /\ EventCount(game.events, DIE, game.jumpers[k].id) = 1

\* C16: an update sets a platform falling only when a live jumper lands on
\* it and it is a faller, and then leaves its y and its vy (0) alone; every
\* later update of the round adds gravity to its vy and then vy to its y, so
\* that y decreases; a falling platform stays falling; a landing on a faller
\* sets it falling.
C16_FallerFalls ==
  [][/\ PhysicsTick =>
          \A i \in DOMAIN game.platforms :
            LET p == game.platforms[i]
                p2 == game'.platforms[i]
            IN /\ p.falling =>
                    /\ p2.falling
                    /\ p2.vy = p.vy + gravity
                    /\ p2.y = p.y + p2.vy
                    /\ p2.y < p.y
               /\ ~p.falling => (p2.y = p.y /\ p2.vy = p.vy /\ p.vy = 0)
               /\ (~p.falling /\ p2.falling) =>
                    /\ p.faller
                    /\ \E k \in DOMAIN game.jumpers :
                         LandedOn(game, game.jumpers[k], game'.jumpers[k], i)
               /\ (p.faller /\ \E k \in DOMAIN game.jumpers :
                      LandedOn(game, game.jumpers[k], game'.jumpers[k], i))
                    => p2.falling
     /\ (~PhysicsTick /\ ~ResetStep) => game'.platforms = game.platforms]_vars

\* the faller of row 31 was landed on and has fallen below its row
C16_Witness ==
  /\ 31 \in DOMAIN game.platforms
  /\ game.platforms[31].faller
  /\ game.platforms[31].falling
  /\ game.platforms[31].y < 30 * rowHeight
  /\ \E k \in DOMAIN game.jumpers : ~game.jumpers[k].dead

\* C17: platforms[0] is the start platform, without spikes, faller or spring
\* and never falling; it lies under the x of every jumper; and while a round
\* is in play and not over every live jumper is at or above it.
C17_SafeStart ==
  /\ 0 \in DOMAIN game.platforms
  /\ ~game.platforms[0].spikes
  /\ ~game.platforms[0].faller
  /\ ~game.platforms[0].spring
  /\ ~game.platforms[0].falling
  /\ game.platforms[0].y = rowHeight
  /\ \A k \in DOMAIN game.jumpers :
       /\ game.jumpers[k].x > game.platforms[0].x - playerHalfWidth
       /\ game.jumpers[k].x < game.platforms[0].x + game.platforms[0].width
                               + playerHalfWidth
  /\ (game.jumping /\ game.gameRestartTime = Unset /\ ~gameOver(game, now)) =>
       \A k \in DOMAIN game.jumpers :
         ~game.jumpers[k].dead => game.jumpers[k].y >= rowHeight

\* a jumper at the right margin has come down on the start platform again
C17_Witness ==
  /\ game.jumping
  /\ game.gameRestartTime = Unset
  /\ \E k \in DOMAIN game.jumpers :
       /\ ~game.jumpers[k].dead
       /\ game.jumpers[k].y = rowHeight
       /\ game.jumpers[k].vy = defaultJumpPower
       /\ game.jumpers[k].highest > rowHeight
       /\ game.jumpers[k].x > One - (2 * playerHalfWidth)
       /\ EventCount(game.events, BOUNCE, game.jumpers[k].id) = 1

\* the jumper at position k is the only entry with its id
UniqueId(js, k) == \A m \in DOMAIN js : m # k => js[m].id # js[k].id

\* in an update the jumper at position k goes from alive to dead exactly when
\* the update's events hold a DIE event with its id, and they hold at most one
DiesWithEvent(k) ==
  LET j == game.jumpers[k]
      j2 == game'.jumpers[k]
  IN /\ (~j.dead /\ j2.dead) <=> EventCount(game'.events, DIE, j.id) >= 1
     /\ EventCount(game'.events, DIE, j.id) <= 1

\* C15 (as stated): in every update, for every jumper entry, dead goes from
\* false to true iff the update's events hold a DIE event with the entry's
\* id, and they hold at most one such event.
C15_DeathIffDieEvent ==
  [][(TickStep /\ ~ResetStep) =>
       \A k \in DOMAIN game.jumpers : DiesWithEvent(k)]_vars

\* C15 for the entries that are the only one of their player: the same
\* equivalence, with at most one DIE event.
C15_WhenIdsAreUnique ==
  [][(TickStep /\ ~ResetStep) =>
       \A k \in DOMAIN game.jumpers :
         UniqueId(game.jumpers, k) => DiesWithEvent(k)]_vars

\* a player has two entries, one has just died and the other is alive
C15_Witness ==
  \E k, m \in DOMAIN game.jumpers :
    /\ k # m
    /\ game.jumpers[k].id = game.jumpers[m].id
    /\ game.jumpers[k].dead
    /\ ~game.jumpers[m].dead
    /\ EventCount(game.events, DIE, game.jumpers[k].id) = 1

\* C18 (as stated): no two entries of the jumpers list have the same id.
C18_OneEntryPerPlayer ==
  \A k \in DOMAIN game.jumpers : UniqueId(game.jumpers, k)

\* C19 (as stated): the jumpers list grows only while jumping is false.
C19_JoinOnlyInLobby ==
  [][Len(game'.jumpers) > Len(game.jumpers) => ~game.jumping]_vars

\* the step is a disconnect
LeftStep == Len(allPlayerIds') < Len(allPlayerIds)

\* C20 (as stated): entries leave the list only when their player
\* disconnects, and after the reset every connected player that had an
\* entry still has one.
C20_EntriesSurviveReset ==
  [][/\ ~LeftStep =>
          \A k \in DOMAIN game.jumpers : findId(game'.jumpers, game.jumpers[k].id) # 0
     /\ ResetStep =>
          \A k \in DOMAIN game.jumpers :
            indexOf(allPlayerIds', game.jumpers[k].id) >= 0 =>
              findId(game'.jumpers, game.jumpers[k].id) # 0]_vars

\* C20: a disconnect removes exactly the entries of the player who left, the
\* resetting update removes every entry, and every other step, the update
\* that declares the winner included, keeps every entry in its place.
C20_EntriesLeaveOnDisconnectOrReset ==
  [][/\ LeftStep =>
          \E n \in DOMAIN allPlayerIds :
            /\ indexOf(allPlayerIds', allPlayerIds[n]) < 0
            /\ game'.jumpers = filterOut(game.jumpers, allPlayerIds[n])
     /\ ResetStep => game'.jumpers = <<>>
     /\ (~LeftStep /\ ~ResetStep) =>
          /\ Len(game'.jumpers) >= Len(game.jumpers)
          /\ \A k \in DOMAIN game.jumpers : game'.jumpers[k].id = game.jumpers[k].id]_vars

\* in a round in play, before any winner is declared, a player who has
\* played has disconnected and has no entry any more
C20_Witness ==
  /\ game.jumping
  /\ game.gameRestartTime = Unset
  /\ game.scores = <<>>
  /\ \E p \in DOMAIN game.best :
       /\ indexOf(allPlayerIds, p) < 0
       /\ findId(game.jumpers, p) = 0

\* the state without its jumpers list
Surroundings(g) == [g EXCEPT !.jumpers = <<>>]

\* the jumpers of js whose id is not playerId, in their order
Remaining(js, playerId) == SelectSeq(js, LAMBDA j : j.id # playerId)

\* C21: a disconnect removes every jumper with the leaving player's id, keeps
\* the other jumpers in their order with all their fields, and changes no
\* other part of the state, in every phase.
C21_PlayerLeftFrame ==
  [][LeftStep =>
       /\ now' = now
       /\ Surroundings(game') = Surroundings(game)
       /\ \E n \in DOMAIN allPlayerIds :
            /\ indexOf(allPlayerIds', allPlayerIds[n]) < 0
            /\ game'.jumpers = Remaining(game.jumpers, allPlayerIds[n])]_vars

\* p1 has left during the countdown that its join had armed: the countdown
\* is still armed and the list is empty
C21_Witness ==
  /\ allPlayerIds = <<"p2">>
  /\ ~game.jumping
  /\ game.startAt # Unset
  /\ game.jumpers = <<>>

\* the step is a controls action
ControlsStep ==
  /\ inputs' # inputs
  /\ allPlayerIds' = allPlayerIds
  /\ Len(game'.jumpers) = Len(game.jumpers)

\* a jumper without its left and right flags
Unsteered(j) == [j EXCEPT !.left = FALSE, !.right = FALSE]

\* C22: a controls action changes at most the left and right flags of the
\* caller's jumper, and nothing at all when the caller has no jumper.
C22_ControlsFrame ==
  [][ControlsStep =>
       /\ now' = now
       /\ Surroundings(game') = Surroundings(game)
       /\ \E n \in DOMAIN allPlayerIds, left \in BOOLEAN, right \in BOOLEAN :
            LET k == findId(game.jumpers, allPlayerIds[n])
            IN IF k = 0 THEN game'.jumpers = game.jumpers
               ELSE /\ game'.jumpers[k].left = left
                    /\ game'.jumpers[k].right = right
                    /\ Unsteered(game'.jumpers[k]) = Unsteered(game.jumpers[k])
                    /\ \A m \in DOMAIN game.jumpers :
                         m # k => game'.jumpers[m] = game.jumpers[m]
       /\ (\A n \in DOMAIN allPlayerIds : findId(game.jumpers, allPlayerIds[n]) = 0)
            => game' = game]_vars

\* a jumper has its right flag set and is still where it joined
C22_Witness ==
  \E k \in DOMAIN game.jumpers :
    /\ game.jumpers[k].right
    /\ ~game.jumpers[k].left
    /\ game.jumpers[k].x = One \div 2
    /\ game.jumpers[k].y = rowHeight
    /\ game.jumpers[k].vy = defaultJumpPower

\* the jumper went from alive to dead
Died(j, j2) == ~j.dead /\ j2.dead

\* the jumper landed on a platform with spikes
Spiked(g, j, j2) ==
  \E idx \in DOMAIN g.platforms : LandedOn(g, j, j2, idx) /\ g.platforms[idx].spikes

\* the number of events the step's update produces: one for the winner
\* declared, one for the countdown armed, one per connected player for the
\* round started, one per death and one per landing that is not on spikes
Produced ==
  (IF WinTick THEN 1 ELSE 0)
  + (IF ~game.jumping /\ game.startAt = Unset /\ game'.startAt # Unset THEN 1 ELSE 0)
  + (IF ~game.jumping /\ game'.jumping THEN Len(allPlayerIds) ELSE 0)
  + (IF PhysicsTick
     THEN Cardinality({k \in DOMAIN game.jumpers :
                         Died(game.jumpers[k], game'.jumpers[k])})
          + Cardinality({k \in DOMAIN game.jumpers :
                           /\ Landed(game.jumpers[k], game'.jumpers[k])
                           /\ ~Spiked(game, game.jumpers[k], game'.jumpers[k])})
     ELSE 0)

\* C23: after an update the events list holds exactly the events that this
\* update produced and nothing of an earlier update; no other step touches
\* the list.
C23_EventsOfOneTick ==
  [][/\ TickStep => Len(game'.events) = Produced
     /\ ~TickStep => game'.events = game.events]_vars

\* the update after the one that started the round has run: the BOUNCE
\* events of the start are gone and the jumper is one step up
C23_Witness ==
  /\ game.jumping
  /\ game.events = <<>>
  /\ now = game.startAt + (2 * PlayStep)
  /\ \E k \in DOMAIN game.jumpers :
       game.jumpers[k].y = rowHeight + ((defaultJumpPower + gravity) \div steps) * steps

\* the update moves the jumper sideways: it is alive after the sub-steps
Steered(g, j, j2) == ~j.dead /\ ~Spiked(g, j, j2)

\* C24 (as stated): no jumper is ever past a margin.
C24_NeverPastMargins ==
  \A k \in DOMAIN game.jumpers :
    /\ game.jumpers[k].x <= One - playerHalfWidth
    /\ game.jumpers[k].x >= playerHalfWidth

\* C24: with right alone held, an update of a round in play moves a live
\* jumper by moveSpeed to the right if its x is below 1 - playerHalfWidth
\* and not at all otherwise; with left alone held, by moveSpeed to the left
\* if its x is above playerHalfWidth; so x stays less than moveSpeed past
\* either margin.  Dead jumpers and jumpers with no flag set do not move
\* sideways, and no other step changes an x.
C24_MovesWhileInsideMargins ==
  [][/\ PhysicsTick =>
          \A k \in DOMAIN game.jumpers :
            LET j == game.jumpers[k]
                j2 == game'.jumpers[k]
            IN /\ (Steered(game, j, j2) /\ j.right /\ ~j.left) =>
                    j2.x = IF j.x < One - playerHalfWidth THEN j.x + moveSpeed ELSE j.x
               /\ (Steered(game, j, j2) /\ j.left /\ ~j.right) =>
                    j2.x = IF j.x > playerHalfWidth THEN j.x - moveSpeed ELSE j.x
               /\ (~Steered(game, j, j2) \/ (~j.left /\ ~j.right)) => j2.x = j.x
     /\ ~PhysicsTick =>
          \A k \in DOMAIN game.jumpers :
            k \in DOMAIN game'.jumpers /\ game'.jumpers[k].id = game.jumpers[k].id
              => game'.jumpers[k].x = game.jumpers[k].x
     /\ \A k \in DOMAIN game'.jumpers :
          /\ game'.jumpers[k].x < (One - playerHalfWidth) + moveSpeed
          /\ game'.jumpers[k].x > playerHalfWidth - moveSpeed]_vars

\* a live jumper with right held has gone past the right margin
C24_Witness ==
  \E k \in DOMAIN game.jumpers :
    /\ ~game.jumpers[k].dead
    /\ game.jumpers[k].right
    /\ ~game.jumpers[k].left
    /\ game.jumpers[k].x > One - playerHalfWidth

\* C25 (as stated): with left and right both held a live jumper's x is the
\* same after an update of a round in play as before.
C25_BothCancel ==
  [][PhysicsTick =>
       \A k \in DOMAIN game.jumpers :
         LET j == game.jumpers[k]
             j2 == game'.jumpers[k]
         IN (Steered(game, j, j2) /\ j.left /\ j.right) => j2.x = j.x]_vars

\* C25: with left and right both held, an update of a round in play leaves
\* a live jumper's x alone while x is below 1 - playerHalfWidth, and moves it
\* by moveSpeed to the left when x is at or past that margin.
C25_BothCancelBelowRightMargin ==
  [][PhysicsTick =>
       \A k \in DOMAIN game.jumpers :
         LET j == game.jumpers[k]
             j2 == game'.jumpers[k]
         IN (Steered(game, j, j2) /\ j.left /\ j.right) =>
              j2.x = IF j.x < One - playerHalfWidth THEN j.x ELSE j.x - moveSpeed]_vars

\* in a round in play a live jumper past the right margin has both flags set
C25_Witness ==
  /\ game.jumping
  /\ \E k \in DOMAIN game.jumpers :
       /\ ~game.jumpers[k].dead
       /\ game.jumpers[k].left
       /\ game.jumpers[k].right
       /\ game.jumpers[k].x >= One - playerHalfWidth

\* C26: every jumper's x lies in [0, 1].
C26_OnScreen ==
  \A k \in DOMAIN game.jumpers :
    game.jumpers[k].x >= 0 /\ game.jumpers[k].x <= One

\* four players have joined and one of them has moved to the left margin
C26_Witness ==
  /\ Len(game.jumpers) = maxPlayers
  /\ \E k \in DOMAIN game.jumpers :
       game.jumpers[k].left /\ game.jumpers[k].x < playerHalfWidth

\* the step is a join action
JoinStep == Len(game'.jumpers) = Len(game.jumpers) + 1

\* C28: a join appends a jumper for a connected player, with x = 0.5 -
\* (n - 1) * 0.1 + k * 0.2 for the player at index k of the n connected
\* players, y = highest = rowHeight, vy = defaultJumpPower and dead = false;
\* when 4 connected players have each joined once their x are 0.2, 0.4, 0.6
\* and 0.8.
C28_SpawnPositions ==
  [][JoinStep =>
       LET j == game'.jumpers[Len(game'.jumpers)]
           n == Len(allPlayerIds)
           k == indexOf(allPlayerIds, j.id)
       IN /\ k >= 0
          /\ 10 * j.x = (5 * One) - ((n - 1) * One) + (2 * k * One)
          /\ j.y = rowHeight
          /\ j.highest = rowHeight
          /\ j.vy = defaultJumpPower
          /\ ~j.dead
          /\ SubSeq(game'.jumpers, 1, Len(game.jumpers)) = game.jumpers
          /\ (n = 4 /\ Len(game'.jumpers) = 4) =>
               {game'.jumpers[m].x : m \in 1 .. 4} =
                 {One \div 5, (2 * One) \div 5, (3 * One) \div 5, (4 * One) \div 5}]_vars

\* four connected players have joined, the last one first, and nobody has
\* moved: the jumpers stand at 0.8, ..., 0.2, each 0.2 from the next
C28_Witness ==
  /\ Len(allPlayerIds) = 4
  /\ Len(game.jumpers) = 4
  /\ game.jumpers[1].id = allPlayerIds[4]
  /\ game.jumpers[1].x = (4 * One) \div 5
  /\ \A m \in 1 .. 4 :
       10 * game.jumpers[m].x = (2 * One) + (2 * indexOf(allPlayerIds, game.jumpers[m].id) * One)

\* C27 (as stated): every jumper's y is >= 0.
C27_NeverBelowGround ==
  \A k \in DOMAIN game.jumpers : game.jumpers[k].y >= 0

\* C27: before a round every jumper stands at rowHeight, and while a round
\* is in play and not over every live jumper has y >= 0; only a dead jumper
\* or a jumper of a round that is over is below 0.
C27_LiveAboveGround ==
  /\ ~game.jumping =>
       \A k \in DOMAIN game.jumpers : game.jumpers[k].y = rowHeight
  /\ \A k \in DOMAIN game.jumpers :
       game.jumpers[k].y < 0 =>
         \/ game.jumpers[k].dead
         \/ game.gameRestartTime # Unset
         \/ gameOver(game, now)

\* in a round in play a dead jumper has fallen below 0 while another jumper
\* is alive
C27_Witness ==
  /\ game.jumping
  /\ game.gameRestartTime = Unset
  /\ \E k, m \in DOMAIN game.jumpers :
       /\ game.jumpers[k].dead
       /\ game.jumpers[k].y < 0
       /\ ~game.jumpers[m].dead
       /\ game.jumpers[m].y >= rowHeight

\* C29 (as stated): when a round has run for exactly roundTime with a jumper
\* alive, the game-over predicate is true.
C29_OverAtRoundTime ==
  (game.jumping /\ now - game.startAt = roundTime /\ findAlive(game.jumpers) # 0)
    => gameOver(game, now)

\* C29: while a jumper is alive the game-over predicate of a round is true
\* exactly when more than roundTime has passed since startAt; at exactly
\* roundTime it is false and no winner has been declared.
C29_OverAfterRoundTime ==
  (game.jumping /\ findAlive(game.jumpers) # 0) =>
     /\ gameOver(game, now) <=> now - game.startAt > roundTime
     /\ now - game.startAt = roundTime =>
          (game.gameRestartTime = Unset /\ WinCount(game.events) = 0)

\* a round has run for exactly roundTime and a jumper is alive
C29_Witness ==
  /\ game.jumping
  /\ now - game.startAt = roundTime
  /\ findAlive(game.jumpers) # 0
  /\ game.gameRestartTime = Unset

\* the generator step places a required platform at row gen.i
RequiredStep == gen'.i = gen.i + 1 /\ forcedPlatform(gen, gen.i)

\* the x of a required platform: within one platform width of the middle
Central(p) ==
  /\ p.x >= (One \div 2) - platformWidth
  /\ p.x <= (One \div 2) + platformWidth

\* C30 (as stated): a required platform has no spikes, is no faller, has no
\* spring, and its x is within one platform width of 0.5.
C30_RequiredPlatformsPlain ==
  [][RequiredStep =>
       LET p == gen'.platforms[gen.i]
       IN ~p.spikes /\ ~p.faller /\ ~p.spring /\ Central(p)]_vars

\* C30: a required platform has no spikes and is no faller, its x is within
\* one platform width of 0.5, and it counts as the last valid row; it may
\* have a spring.
C30_RequiredPlatformsSafe ==
  [][RequiredStep =>
       LET p == gen'.platforms[gen.i]
       IN /\ ~p.spikes /\ ~p.faller /\ ~p.falling
          /\ Central(p)
          /\ p.width = platformWidth
          /\ gen'.lastValidRow = gen.i
          /\ gen'.lastSpike = gen.lastSpike]_vars

\* row 5, which the generator always has to fill, has a spring
C30_Witness ==
  /\ gen.stop = 5 + GenFreeRows
  /\ gen.i > 5
  /\ 5 \in DOMAIN gen.platforms
  /\ gen.platforms[5].spring
  /\ Central(gen.platforms[5])

\* the rows of a platforms array that carry spikes
SpikeRows(platforms) == {i \in DOMAIN platforms : platforms[i].spikes}

\* C31: a generator step puts spikes only on a platform that is not
\* required, at a row above 30 and more than 4 rows above the last spiked
\* row; so every spiked platform of the level is above row 30 and any two
\* spiked platforms are at least 5 rows apart.
C31_SpikeSpacing ==
  [][gen'.i = gen.i + 1 =>
       /\ (gen.i \in SpikeRows(gen'.platforms) =>
             /\ ~forcedPlatform(gen, gen.i)
             /\ gen.i > 30
             /\ gen.i - gen.lastSpike > 4
             /\ gen'.lastSpike = gen.i)
       /\ \A i \in SpikeRows(gen'.platforms) : i > 30 /\ i <= gen'.lastSpike
       /\ \A i, j \in SpikeRows(gen'.platforms) : i < j => j - i >= 5]_vars

\* row 31 has spikes, and the generator has since placed platforms without
\* spikes, one of them 4 rows above
C31_Witness ==
  /\ SpikeRows(gen.platforms) = {31}
  /\ 35 \in DOMAIN gen.platforms
  /\ gen.lastValidRow > 31
  /\ gen.lastValidRow < 35

\* the number of features a platform carries
Features(p) ==
  (IF p.spikes THEN 1 ELSE 0) + (IF p.faller THEN 1 ELSE 0) + (IF p.spring THEN 1 ELSE 0)

\* C32: every platform of the level under construction carries at most one
\* of spikes, faller and spring.
C32_OneFeature ==
  \A i \in DOMAIN gen.platforms : Features(gen.platforms[i]) <= 1

\* a level with a spiked platform, a faller and a platform with a spring
C32_Witness ==
  /\ \E i \in DOMAIN gen.platforms : gen.platforms[i].spikes
  /\ \E i \in DOMAIN gen.platforms : gen.platforms[i].faller
  /\ \E i \in DOMAIN gen.platforms : gen.platforms[i].spring

\* C33 (as stated): every platform that is not falling, the one at index 0
\* included, has y = i * rowHeight for the index i it is stored at.
C33_EveryRowAtItsIndex ==
  \A i \in DOMAIN game.platforms :
    ~game.platforms[i].falling =>
      /\ game.platforms[i].y = i * rowHeight
      /\ game.platforms[i].y \div rowHeight = i

\* C33: every platform stored at an index i >= 1 that is not falling has
\* y = i * rowHeight and so occupies row i, and a falling platform is below
\* that; platforms[0], the start platform, has y = rowHeight and occupies
\* row 1, where no other platform is stored.
C33_GeneratedRowAtItsIndex ==
  /\ \A i \in DOMAIN game.platforms \ {0} :
       /\ ~game.platforms[i].falling =>
            /\ game.platforms[i].y = i * rowHeight
            /\ game.platforms[i].y \div rowHeight = i
       /\ game.platforms[i].falling => game.platforms[i].y <= i * rowHeight
  /\ 0 \in DOMAIN game.platforms
  /\ game.platforms[0].y = rowHeight
  /\ game.platforms[0].y \div rowHeight = 1
  /\ 1 \notin DOMAIN game.platforms

\* a round in which the faller of row 31 has left its row while the
\* platforms of rows 5 and 28 are where the generator put them
C33_Witness ==
  /\ game.jumping
  /\ {5, 28, 31} \subseteq DOMAIN game.platforms
  /\ game.platforms[31].falling
  /\ game.platforms[31].y \div rowHeight # 31
  /\ ~game.platforms[5].falling
  /\ game.platforms[5].y = 5 * rowHeight
  /\ game.platforms[28].y = 28 * rowHeight

\* streams s1 and s2 yield the same sequence of values
SameDraws(s1, s2) ==
  \A k \in 1 .. (Len(RandomStreams[s1]) * Len(RandomStreams[s2])) :
    RandomStreams[s1][((k - 1) % Len(RandomStreams[s1])) + 1]
      = RandomStreams[s2][((k - 1) % Len(RandomStreams[s2])) + 1]

ResetPending(g, t) == g.gameRestartTime # Unset /\ t > g.gameRestartTime

\* a GameState without the fields startGame fills from random values
WithoutLevel(g) == [g EXCEPT !.platforms = <<>>, !.enemies = <<>>, !.theme = 0]

\* C35 (as stated): the next update yields the same result whatever values
\* Math.random() returns, the update that resets the round included.
C35_PureTick ==
  \A dt \in ClockSteps, s1 \in SessionStreams, s2 \in SessionStreams :
    s1 < s2 =>
      update(game, now + dt, allPlayerIds, s1) = update(game, now + dt, allPlayerIds, s2)

\* C35: an update that does not reset the round yields the same result
\* whatever values Math.random() returns; the update that resets the round
\* yields results that differ at most in platforms, enemies and theme.
C35_PureExceptReset ==
  \A dt \in ClockSteps, s1 \in SessionStreams, s2 \in SessionStreams :
    LET r1 == update(game, now + dt, allPlayerIds, s1)
        r2 == update(game, now + dt, allPlayerIds, s2)
    IN s1 < s2 =>
         /\ ~ResetPending(game, now + dt) => r1 = r2
         /\ r1.thrown = r2.thrown
         /\ WithoutLevel(r1.game) = WithoutLevel(r2.game)

\* the next update resets the round and its platforms depend on the values
\* Math.random() returns
C35_Witness ==
  \E dt \in ClockSteps :
    /\ ResetPending(game, now + dt)
    /\ update(game, now + dt, allPlayerIds, 1).game.platforms
         # update(game, now + dt, allPlayerIds, 2).game.platforms

\* C36 (as stated): while a round is over and not yet reset, the jumper
\* that ranks first by highest is the jumper whose scores entry the update
\* that declared the winner has incremented.
C36_WinnerStaysOnTop ==
  (game.jumping /\ game.gameRestartTime # Unset /\ game.jumpers # <<>>)
     => ScoreOf(game.scores, game.jumpers[FirstHighest(game.jumpers)].id) >= 1

\* after the sub-steps a jumper at (x, y) is within reach of an enemy of g
NearEnemy(g, x, y) ==
  \E e \in DOMAIN g.enemies :
    /\ Abs(g.enemies[e].x - x) < (5 * One) \div 100
    /\ Abs(g.enemies[e].y - y) < (5 * One) \div 100

\* the update's events report a landing of the player: a BOUNCE or a SPRING
LandingEvents(events, id) ==
  EventCount(events, BOUNCE, id) + EventCount(events, SPRING, id)

\* C37 (as stated): a live jumper that lands on a platform without spikes
\* and is not within reach of an enemy is alive after the update, and the
\* update's events hold no DIE event with its id.
C37_LandingSaves ==
  [][PhysicsTick =>
       \A k \in DOMAIN game.jumpers, idx \in DOMAIN game.platforms :
         LET j == game.jumpers[k]
             j2 == game'.jumpers[k]
         IN (/\ LandedOn(game, j, j2, idx)
             /\ ~game.platforms[idx].spikes
             /\ ~NearEnemy(game', j.x, j2.y)) =>
              /\ ~j2.dead
              /\ EventCount(game'.events, DIE, j.id) = 0]_vars

\* C37: a live jumper that lands on a platform without spikes and is not
\* within reach of an enemy is alive after the update exactly when the
\* platform's y is not more than 0.5 below its highest; when it is, the
\* update leaves the jumper dead on the platform, and its events hold both
\* the BOUNCE or SPRING event of the landing and the DIE event of the fall.
C37_LandingSavesOnScreen ==
  [][PhysicsTick =>
       \A k \in DOMAIN game.jumpers, idx \in DOMAIN game.platforms :
         LET j == game.jumpers[k]
             j2 == game'.jumpers[k]
             offScreen == game.platforms[idx].y < j.highest - (One \div 2)
         IN (/\ LandedOn(game, j, j2, idx)
             /\ ~game.platforms[idx].spikes
             /\ ~NearEnemy(game', j.x, j2.y)) =>
              /\ j2.dead <=> offScreen
              /\ EventCount(game'.events, DIE, j.id) = (IF offScreen THEN 1 ELSE 0)
              /\ LandingEvents(game'.events, j.id) = 1
              /\ j2.y = game.platforms[idx].y
              /\ j2.highest = j.highest]_vars

\* a jumper that came down from the spring of row 5 has landed on the plain
\* platform of row 8 and died in the same update
C37_Witness ==
  /\ 8 \in DOMAIN game.platforms
  /\ \E k \in DOMAIN game.jumpers :
       /\ game.jumpers[k].dead
       /\ game.jumpers[k].y = game.platforms[8].y
       /\ game.jumpers[k].vy = defaultJumpPower
       /\ game.jumpers[k].highest > game.platforms[8].y + (One \div 2)
       /\ EventCount(game.events, BOUNCE, game.jumpers[k].id) = 1
       /\ EventCount(game.events, DIE, game.jumpers[k].id) = 1

\* the height a jumper gains after leaving a platform with velocity vy: each
\* update adds gravity to vy and then moves the jumper by ten tenths of vy,
\* for as long as vy is positive
RECURSIVE rise(_)
rise(vy) ==
  IF vy + gravity <= 0 THEN 0
  ELSE steps * ((vy + gravity) \div steps) + rise(vy + gravity)

\* the jumper is at the top of a default bounce from a platform kept at its
\* row: alive, at rest, rise(defaultJumpPower) above a multiple of rowHeight
AtDefaultPeak(j) ==
  /\ ~j.dead
  /\ j.vy = 0
  /\ j.y > rise(defaultJumpPower)
  /\ (j.y - rise(defaultJumpPower)) % rowHeight = 0

\* C38: a default bounce rises by exactly 0.285, which is 5 rows and a part
\* of a row; a jumper at the top of a default bounce from a platform at
\* y = r * rowHeight is in row r + 5 and, in the next update of a round
\* that is not over, it is moving down inside row r + 5 at the first
\* sub-step and lands on the platform of row r + 5 if that platform is not
\* falling and lies under its x.  From the start platform (y = rowHeight)
\* the bounce tops in row 6, above all of row 5.
C38_DefaultBounceClimbs ==
  [][PhysicsTick =>
       /\ rise(defaultJumpPower) = (285 * One) \div 1000
       /\ rise(defaultJumpPower) > 5 * rowHeight
       /\ rise(defaultJumpPower) < 6 * rowHeight
       /\ \A k \in DOMAIN game.jumpers :
            LET j == game.jumpers[k]
                j2 == game'.jumpers[k]
                r == (j.y - rise(defaultJumpPower)) \div rowHeight
            IN (AtDefaultPeak(j) /\ ~gameOver(game, now')) =>
                 /\ j.y \div rowHeight = r + 5
                 /\ j2.vy # 0
                 /\ SubY(j, 1) < j.y
                 /\ SubY(j, 1) \div rowHeight = r + 5
                 /\ (/\ r + 5 \in DOMAIN game.platforms
                     /\ ~game.platforms[r + 5].falling
                     /\ game.platforms[r + 5].faller =>
                          \A m \in 1 .. (k - 1) :
                            ~LandedOn(game, game.jumpers[m], game'.jumpers[m], r + 5)
                     /\ j.x > game.platforms[r + 5].x - playerHalfWidth
                     /\ j.x < game.platforms[r + 5].x + game.platforms[r + 5].width
                                + playerHalfWidth)
                    => LandedOn(game, j, j2, r + 5)]_vars

\* a jumper has bounced off the plain platform of a row r and has landed
\* on the platform of row r + 5
C38_Witness ==
  \E k \in DOMAIN game.jumpers, r \in DOMAIN game.platforms \ {0} :
    /\ ~game.jumpers[k].dead
    /\ r + 5 \in DOMAIN game.platforms
    /\ ~game.platforms[r].spring
    /\ game.jumpers[k].y = (r + 5) * rowHeight
    /\ game.jumpers[k].vy >= defaultJumpPower
    /\ game.jumpers[k].highest = (r * rowHeight) + rise(defaultJumpPower)

\* in the step's update the jumper at position k comes down on the platform
\* stored at row idx: it leaves free fall at that platform's y, having been
\* in row idx at one of the sub-steps
TouchedDown(k, idx) ==
  LET j == game.jumpers[k]
      j2 == game'.jumpers[k]
  IN /\ Landed(j, j2)
     /\ j2.y = game'.platforms[idx].y
     /\ \E i \in 1 .. steps : SubY(j, i) \div rowHeight = idx

\* C40: no jumper comes down on a platform that is falling; of the jumpers
\* that reach a faller in the same update only one comes down on it, and no
\* jumper later in the list whenever an earlier one does; a platform that is
\* falling is a faller.
C40_FallerHoldsOnce ==
  [][PhysicsTick =>
       \A idx \in DOMAIN game.platforms :
         /\ game.platforms[idx].falling =>
              \A k \in DOMAIN game.jumpers : ~TouchedDown(k, idx)
         /\ game.platforms[idx].faller =>
              \A k, m \in DOMAIN game.jumpers :
                (k < m /\ TouchedDown(k, idx)) => ~TouchedDown(m, idx)
         /\ game.platforms[idx].falling => game.platforms[idx].faller
         /\ game'.platforms[idx].falling => game'.platforms[idx].faller]_vars

\* two jumpers have reached the faller of row 31 in the same update: the
\* first of the list stands on it, the second is moving down through the
\* row, under the platform's x, and the platform has begun to fall
C40_Witness ==
  /\ Len(game.jumpers) = 2
  /\ 31 \in DOMAIN game.platforms
  /\ game.platforms[31].faller
  /\ game.platforms[31].falling
  /\ game.platforms[31].vy = 0
  /\ game.jumpers[1].y = game.platforms[31].y
  /\ game.jumpers[1].vy = defaultJumpPower
  /\ ~game.jumpers[2].dead
  /\ game.jumpers[2].vy < 0
  /\ game.jumpers[2].y \div rowHeight = 31
  /\ game.jumpers[2].x > game.platforms[31].x - playerHalfWidth
  /\ game.jumpers[2].x < game.platforms[31].x + game.platforms[31].width + playerHalfWidth

\* C39: a round in play with a jumper present declares its winner in the
\* first update whose clock is more than roundTime past startAt, if it has
\* not done so before, and is reset by the first update whose clock is past
\* gameRestartTime; and with updates that keep coming, every round in play
\* with a jumper present comes to an end (or loses all its jumpers),
\* whatever joins, controls and disconnects are interleaved.
C39_RoundEnds ==
  /\ [][(/\ TickStep /\ game.jumping /\ game.gameRestartTime = Unset
         /\ game.jumpers # <<>>
         /\ now' - game.startAt > roundTime) =>
          /\ WinCount(game'.events) = 1
          /\ game'.gameRestartTime = now' + 3000]_vars
  /\ [][(/\ TickStep /\ game.jumping /\ game.gameRestartTime # Unset
         /\ now' > game.gameRestartTime) =>
          /\ ~game'.jumping
          /\ game'.gameRestartTime = Unset
          /\ game'.startAt = Unset]_vars
  /\ ((game.jumping /\ game.jumpers # <<>>)
        ~> (~game.jumping \/ game.jumpers = <<>>))

\* a round that ran out of time with a live jumper has been reset
C39_Witness ==
  /\ ~game.jumping
  /\ game.gameRestartTime = Unset
  /\ now > roundTime
  /\ DOMAIN game.scores # {}
  /\ \E p \in DOMAIN game.best : game.best[p] > rowHeight

====
